---- MODULE Spec2Model ----
(***************************************************************************)
(* MarQS: the store (message bodies, child queues, parent queues, the      *)
(* visibility-timeout queue, the current-concurrency sets, the limits),    *)
(* the server-side scripts, the broker operations with their round trips   *)
(* to the store, and the requeueing worker.                                *)
(* Source: apps/webapp/app/v3/marqs/index.server.ts                        *)
(***************************************************************************)
EXTENDS Integers, Sequences, FiniteSets, Bags, TLC

(***************************************************************************)
(* Bounds of the model.                                                    *)
(***************************************************************************)
\* Date.now() takes the values TickMs, 2*TickMs, ..., MaxTicks*TickMs.
TickMs == 2000
MaxTicks == 2
\* at most this many broker calls are between two of their round trips
MaxCalls == 2
\* options.defaultQueueConcurrency / defaultEnvConcurrency / defaultOrgConcurrency
defaultQueueConcurrency == 2
defaultEnvConcurrency == 2
defaultOrgConcurrency == 2
\* the value an explicit limit key holds when the initial store has one
ExplicitLimit == 1

\* options.visibilityTimeoutInMs
visibilityTimeoutInMs == 1 * TickMs

\* LIMIT of the requeuer's ZRANGEBYSCORE
RequeueBatch == 10

Times == {k * TickMs : k \in 1..MaxTicks}

(***************************************************************************)
(* Identifiers.  A child queue key embeds the environment, the queue name  *)
(* and the optional concurrency key; a message id names one run, which     *)
(* belongs to one child queue (queueOf, chosen in Init and never changed). *)
(***************************************************************************)
Envs == {"E1", "E2"}
Orgs == {"O1"}
OrgOf(env) == "O1"
NoCk == "-"

Ids == {"a", "b"}

\* the store's lexicographic order of members with equal scores
Lex(id) == IF id = "a" THEN 1 ELSE 2

\* KeyProducer.queueKey(env, queue, concurrencyKey)
queueKey(env, queue, ck) == [env |-> env, queue |-> queue, ck |-> ck]

ChildKeys == { queueKey("E1", "q1", "ck1"),
               queueKey("E1", "q1", "ck2"),
               queueKey("E2", "q1", NoCk) }

SHARED_QUEUE == "sharedQueue"
\* KeyProducer.envSharedQueueKey(env)
envSharedQueueKey(env) == env
ParentKeys == Envs \cup {SHARED_QUEUE}

\* KeyProducer.keys_messageKey(messageId)
keys_messageKey(messageId) == messageId

\* KeyProducer.*FromQueue(childKey)
concurrencyLimitKeyFromQueue(q) == <<q.env, q.queue>>
currentConcurrencyKeyFromQueue(q) == q
envConcurrencyLimitKeyFromQueue(q) == q.env
envCurrentConcurrencyKeyFromQueue(q) == q.env
orgConcurrencyLimitKeyFromQueue(q) == OrgOf(q.env)
orgCurrentConcurrencyKeyFromQueue(q) == OrgOf(q.env)

LimitKeys == { concurrencyLimitKeyFromQueue(q) : q \in ChildKeys }

(***************************************************************************)
(* Sorted sets: a function from the members to their scores.              *)
(***************************************************************************)
EmptyZ == [m \in {} |-> 0]

ZADD(z, score, member) ==
    [m \in DOMAIN z \cup {member} |-> IF m = member THEN score ELSE z[m]]

ZREM(z, member) == [m \in DOMAIN z \ {member} |-> z[m]]

\* whether member m comes before member n in z (score, then lexicographic)
Before(z, m, n) ==
    \/ z[m] < z[n]
    \/ z[m] = z[n] /\ Lex(m) < Lex(n)

\* ZRANGE z 0 0 WITHSCORES: the set holding the first member, or {}
ZFirst(z) ==
    { m \in DOMAIN z : \A n \in DOMAIN z \ {m} : Before(z, m, n) }

\* a range read that returns the last due member instead of the first
ZLastByScore(z, hi) ==
    LET due == { m \in DOMAIN z : z[m] <= hi }
    IN  { m \in due : \A n \in due \ {m} : Before(z, n, m) }

\* ZRANGEBYSCORE z -inf hi LIMIT 0 1: the set holding the first member with
\* score <= hi, or {}
ZFirstByScore(z, hi) ==
    LET due == { m \in DOMAIN z : z[m] <= hi }
    IN  { m \in due : \A n \in due \ {m} : Before(z, m, n) }

\* the members s of z in the order of z, as a sequence
RECURSIVE ZSeq(_, _)
ZSeq(z, s) ==
    IF s = {} THEN << >>
    ELSE LET m == CHOOSE x \in s : \A n \in s \ {x} : Before(z, x, n)
         IN  <<m>> \o ZSeq(z, s \ {m})

Take(seq, n) == IF Len(seq) <= n THEN seq ELSE SubSeq(seq, 1, n)

\* ZRANGEBYSCORE z lo hi LIMIT 0 n
ZRangeByScore(z, lo, hi, n) ==
    Take(ZSeq(z, { m \in DOMAIN z : lo <= z[m] /\ z[m] <= hi }), n)

\* SET key value and DEL key on the string keys
SET(kv, key, value) == [k \in DOMAIN kv \cup {key} |-> IF k = key THEN value ELSE kv[k]]
DEL(kv, key) == [k \in DOMAIN kv \ {key} |-> kv[k]]

\* GET key, or the default when the key does not exist
GetOr(kv, key, default) == IF key \in DOMAIN kv THEN kv[key] ELSE default

(***************************************************************************)
(* State.                                                                  *)
(***************************************************************************)
VARIABLES
    now,          \* Date.now()
    queueOf,      \* the child queue each message id belongs to
    messages,     \* message:{id} -> the stored MessagePayload
    queues,       \* child queue key -> sorted set of message ids
    parents,      \* parent queue key -> sorted set of child queue keys
    visibility,   \* msgVisibilityTimeout: sorted set of message ids
    current,      \* current-concurrency set of a child queue
    envCurrent,   \* current-concurrency set of an environment
    orgCurrent,   \* current-concurrency set of an organization
    queueLimit,   \* concurrency limit keys of queues that hold one
    envLimit,     \* concurrency limit keys of environments
    orgLimit,     \* concurrency limit keys of organizations
    calls,        \* bag of the broker calls between two round trips
    worker        \* the requeueing worker's position

store == <<messages, queues, parents, visibility, current, envCurrent, orgCurrent>>
limits == <<queueLimit, envLimit, orgLimit>>
vars == <<now, queueOf, messages, queues, parents, visibility, current,
          envCurrent, orgCurrent, queueLimit, envLimit, orgLimit, calls,
          worker>>

(***************************************************************************)
(* Init: an empty store.  The limit keys outlive a broker: at one of the   *)
(* three levels (queue, env, org) every key may already hold an explicit   *)
(* limit, the other levels fall back to the defaults.                      *)
(***************************************************************************)
NoKeys == [k \in {} |-> 0]
NoQueue == queueKey("-", "-", NoCk)
Idle == [pc |-> "idle", batch |-> << >>, queue |-> NoQueue, parentQueue |-> "-", score |-> 0]

\* the initial stores: the queue of message b and the level that is limited
Scenarios ==
    { [queueB |-> queueKey("E1", "q1", "ck1"), level |-> "none"],
      [queueB |-> queueKey("E1", "q1", "ck1"), level |-> "queue"],
      [queueB |-> queueKey("E1", "q1", "ck2"), level |-> "env"],
      [queueB |-> queueKey("E2", "q1", NoCk), level |-> "org"] }

Init ==
    /\ now = TickMs
    /\ messages = NoKeys
    /\ queues = [q \in ChildKeys |-> EmptyZ]
    /\ parents = [p \in ParentKeys |-> EmptyZ]
    /\ visibility = EmptyZ
    /\ current = [q \in ChildKeys |-> {}]
    /\ envCurrent = [e \in Envs |-> {}]
    /\ orgCurrent = [o \in Orgs |-> {}]
    /\ \E s \in Scenarios :
         /\ queueOf = [id \in Ids |-> IF id = "a" THEN queueKey("E1", "q1", "ck1")
                                      ELSE s.queueB]
         /\ queueLimit = IF s.level = "queue"
                         THEN [k \in LimitKeys |-> ExplicitLimit] ELSE NoKeys
         /\ envLimit = IF s.level = "env"
                       THEN [e \in Envs |-> ExplicitLimit] ELSE NoKeys
         /\ orgLimit = IF s.level = "org"
                       THEN [o \in Orgs |-> ExplicitLimit] ELSE NoKeys
    /\ calls = EmptyBag
    /\ worker = Idle

(***************************************************************************)
(* The server-side scripts (#registerCommands).  Each is one atomic step   *)
(* on the store; the keys and arguments are the script's KEYS and ARGV.    *)
(***************************************************************************)
\* a rebalance that keeps the score of a child the parent already holds
Rebalance_KeepsScore(parentZ, childZ, queueName) ==
    IF ZFirst(childZ) = {}
    THEN ZREM(parentZ, queueName)
    ELSE IF queueName \in DOMAIN parentZ THEN parentZ
    ELSE ZADD(parentZ, childZ[CHOOSE m \in ZFirst(childZ) : TRUE], queueName)

\* "Rebalance the parent queue": read the child's first member and upsert the
\* child in the parent at that score, or remove it when the child is empty
Rebalance(parentZ, childZ, queueName) ==
    IF ZFirst(childZ) = {}
    THEN ZREM(parentZ, queueName)
    ELSE ZADD(parentZ, childZ[CHOOSE m \in ZFirst(childZ) : TRUE], queueName)

luaEnqueueMessage(queue, parentQueue, messageKey, queueName, messageId, messageData, messageScore) ==
    LET childZ == ZADD(queues[queue], messageScore, messageId)
    IN  /\ messages' = SET(messages, messageKey, messageData)
        /\ queues' = [queues EXCEPT ![queue] = childZ]
        /\ parents' = [parents EXCEPT
                         ![parentQueue] = Rebalance(@, childZ, queueName)]
        /\ UNCHANGED <<visibility, current, envCurrent, orgCurrent>>

\* the limit checks with the queue check off by one (> for >=)
HasCapacity_QueueOffByOne(concurrencyLimitKey, envConcurrencyLimitKey, orgConcurrencyLimitKey, currentConcurrencyKey, envCurrentConcurrencyKey, orgCurrentConcurrencyKey) ==
    /\ ~ (Cardinality(orgCurrent[orgCurrentConcurrencyKey])
            >= GetOr(orgLimit, orgConcurrencyLimitKey, defaultOrgConcurrency))
    /\ ~ (Cardinality(envCurrent[envCurrentConcurrencyKey])
            >= GetOr(envLimit, envConcurrencyLimitKey, defaultEnvConcurrency))
    /\ ~ (Cardinality(current[currentConcurrencyKey])
            > GetOr(queueLimit, concurrencyLimitKey, defaultQueueConcurrency))

\* the limit checks without the env check
HasCapacity_NoEnvCheck(concurrencyLimitKey, envConcurrencyLimitKey, orgConcurrencyLimitKey, currentConcurrencyKey, envCurrentConcurrencyKey, orgCurrentConcurrencyKey) ==
    /\ ~ (Cardinality(orgCurrent[orgCurrentConcurrencyKey])
            >= GetOr(orgLimit, orgConcurrencyLimitKey, defaultOrgConcurrency))
    /\ ~ (Cardinality(current[currentConcurrencyKey])
            >= GetOr(queueLimit, concurrencyLimitKey, defaultQueueConcurrency))

\* the limit checks without the queue check
HasCapacity_NoQueueCheck(concurrencyLimitKey, envConcurrencyLimitKey, orgConcurrencyLimitKey, currentConcurrencyKey, envCurrentConcurrencyKey, orgCurrentConcurrencyKey) ==
    /\ ~ (Cardinality(orgCurrent[orgCurrentConcurrencyKey])
            >= GetOr(orgLimit, orgConcurrencyLimitKey, defaultOrgConcurrency))
    /\ ~ (Cardinality(envCurrent[envCurrentConcurrencyKey])
            >= GetOr(envLimit, envConcurrencyLimitKey, defaultEnvConcurrency))

\* the three limit checks of the dequeue script, org first, then env, then queue
HasCapacity(concurrencyLimitKey, envConcurrencyLimitKey, orgConcurrencyLimitKey, currentConcurrencyKey, envCurrentConcurrencyKey, orgCurrentConcurrencyKey) ==
    /\ ~ (Cardinality(orgCurrent[orgCurrentConcurrencyKey])
            >= GetOr(orgLimit, orgConcurrencyLimitKey, defaultOrgConcurrency))
    /\ ~ (Cardinality(envCurrent[envCurrentConcurrencyKey])
            >= GetOr(envLimit, envConcurrencyLimitKey, defaultEnvConcurrency))
    /\ ~ (Cardinality(current[currentConcurrencyKey])
            >= GetOr(queueLimit, concurrencyLimitKey, defaultQueueConcurrency))

\* what the dequeue script returns: {} for nil, or the set holding the id taken
DequeueResult(childQueue, concurrencyLimitKey, envConcurrencyLimitKey, orgConcurrencyLimitKey, currentConcurrencyKey, envCurrentConcurrencyKey, orgCurrentConcurrencyKey, currentTime) ==
    IF HasCapacity(concurrencyLimitKey, envConcurrencyLimitKey,
                   orgConcurrencyLimitKey, currentConcurrencyKey,
                   envCurrentConcurrencyKey, orgCurrentConcurrencyKey)
    THEN ZFirstByScore(queues[childQueue], currentTime)
    ELSE {}

\* a move that takes no slot in the org set
DequeueMove_NoOrgSlot(childQueue, parentQueue, currentConcurrencyKey, envCurrentConcurrencyKey, orgCurrentConcurrencyKey, childQueueName, messageId, timeoutScore) ==
    LET childZ == ZREM(queues[childQueue], messageId)
    IN  /\ queues' = [queues EXCEPT ![childQueue] = childZ]
        /\ visibility' = ZADD(visibility, timeoutScore, messageId)
        /\ current' = [current EXCEPT ![currentConcurrencyKey] = @ \cup {messageId}]
        /\ envCurrent' = [envCurrent EXCEPT
                            ![envCurrentConcurrencyKey] = @ \cup {messageId}]
        /\ parents' = [parents EXCEPT
                         ![parentQueue] = Rebalance(@, childZ, childQueueName)]
        /\ UNCHANGED <<messages, orgCurrent>>

\* a move that leaves the id in the child queue
DequeueMove_KeepsInChild(childQueue, parentQueue, currentConcurrencyKey, envCurrentConcurrencyKey, orgCurrentConcurrencyKey, childQueueName, messageId, timeoutScore) ==
    /\ visibility' = ZADD(visibility, timeoutScore, messageId)
    /\ current' = [current EXCEPT ![currentConcurrencyKey] = @ \cup {messageId}]
    /\ envCurrent' = [envCurrent EXCEPT
                        ![envCurrentConcurrencyKey] = @ \cup {messageId}]
    /\ orgCurrent' = [orgCurrent EXCEPT
                        ![orgCurrentConcurrencyKey] = @ \cup {messageId}]
    /\ parents' = [parents EXCEPT
                     ![parentQueue] = Rebalance(@, queues[childQueue], childQueueName)]
    /\ UNCHANGED <<messages, queues>>

\* a move that takes the slot in the current set of every child queue of the
\* same queue, whatever its concurrency key
DequeueMove_CountsPerQueue(childQueue, parentQueue, currentConcurrencyKey, envCurrentConcurrencyKey, orgCurrentConcurrencyKey, childQueueName, messageId, timeoutScore) ==
    LET childZ == ZREM(queues[childQueue], messageId)
    IN  /\ queues' = [queues EXCEPT ![childQueue] = childZ]
        /\ visibility' = ZADD(visibility, timeoutScore, messageId)
        /\ current' = [q \in DOMAIN current |->
                         IF q.env = childQueue.env /\ q.queue = childQueue.queue
                         THEN current[q] \cup {messageId} ELSE current[q]]
        /\ envCurrent' = [envCurrent EXCEPT
                            ![envCurrentConcurrencyKey] = @ \cup {messageId}]
        /\ orgCurrent' = [orgCurrent EXCEPT
                            ![orgCurrentConcurrencyKey] = @ \cup {messageId}]
        /\ parents' = [parents EXCEPT
                         ![parentQueue] = Rebalance(@, childZ, childQueueName)]
        /\ UNCHANGED messages

\* "Move message to timeout queue and update concurrency", then rebalance
DequeueMove(childQueue, parentQueue, currentConcurrencyKey, envCurrentConcurrencyKey, orgCurrentConcurrencyKey, childQueueName, messageId, timeoutScore) ==
    LET childZ == ZREM(queues[childQueue], messageId)
    IN  /\ queues' = [queues EXCEPT ![childQueue] = childZ]
        /\ visibility' = ZADD(visibility, timeoutScore, messageId)
        /\ current' = [current EXCEPT ![currentConcurrencyKey] = @ \cup {messageId}]
        /\ envCurrent' = [envCurrent EXCEPT
                            ![envCurrentConcurrencyKey] = @ \cup {messageId}]
        /\ orgCurrent' = [orgCurrent EXCEPT
                            ![orgCurrentConcurrencyKey] = @ \cup {messageId}]
        /\ parents' = [parents EXCEPT
                         ![parentQueue] = Rebalance(@, childZ, childQueueName)]
        /\ UNCHANGED messages

\* a script that moves the first due member before it checks the limits
luaDequeueMessage_CheckAfterMove(childQueue, parentQueue, concurrencyLimitKey, envConcurrencyLimitKey, orgConcurrencyLimitKey, currentConcurrencyKey, envCurrentConcurrencyKey, orgCurrentConcurrencyKey, childQueueName, visibilityTimeout, currentTime) ==
    LET due == ZFirstByScore(queues[childQueue], currentTime)
    IN  IF due = {}
        THEN UNCHANGED store
        ELSE DequeueMove(childQueue, parentQueue, currentConcurrencyKey,
                         envCurrentConcurrencyKey, orgCurrentConcurrencyKey,
                         childQueueName, CHOOSE m \in due : TRUE,
                         currentTime + visibilityTimeout)

luaDequeueMessage(childQueue, parentQueue, concurrencyLimitKey, envConcurrencyLimitKey, orgConcurrencyLimitKey, currentConcurrencyKey, envCurrentConcurrencyKey, orgCurrentConcurrencyKey, childQueueName, visibilityTimeout, currentTime) ==
    LET result == DequeueResult(childQueue, concurrencyLimitKey,
                                envConcurrencyLimitKey, orgConcurrencyLimitKey,
                                currentConcurrencyKey, envCurrentConcurrencyKey,
                                orgCurrentConcurrencyKey, currentTime)
    IN  IF result = {}
        THEN UNCHANGED store
        ELSE DequeueMove(childQueue, parentQueue, currentConcurrencyKey,
                         envCurrentConcurrencyKey, orgCurrentConcurrencyKey,
                         childQueueName, CHOOSE m \in result : TRUE,
                         currentTime + visibilityTimeout)

luaAcknowledgeMessage(messageKey, concurrencyKey, envCurrentConcurrencyKey, orgCurrentConcurrencyKey, messageId) ==
    /\ messages' = DEL(messages, messageKey)
    /\ visibility' = ZREM(visibility, messageId)
    /\ current' = [current EXCEPT ![concurrencyKey] = @ \ {messageId}]
    /\ envCurrent' = [envCurrent EXCEPT
                        ![envCurrentConcurrencyKey] = @ \ {messageId}]
    /\ orgCurrent' = [orgCurrent EXCEPT
                        ![orgCurrentConcurrencyKey] = @ \ {messageId}]
    /\ UNCHANGED <<queues, parents>>

\* tonumber(ZSCORE visibilityQueue messageId) or 0
ScoreOrZero(z, member) == IF member \in DOMAIN z THEN z[member] ELSE 0

\* a nack script that requeues at currentTime instead of messageScore
luaNackMessage_AtCurrentTime(messageKey, childQueueKey, parentQueueKey, concurrencyKey, envConcurrencyKey, orgConcurrencyKey, childQueueName, messageId, currentTime, messageScore) ==
    IF ScoreOrZero(visibility, messageId) = 0
    THEN UNCHANGED store
    ELSE LET childZ == ZADD(queues[childQueueKey], currentTime, messageId)
         IN  /\ current' = [current EXCEPT ![concurrencyKey] = @ \ {messageId}]
             /\ envCurrent' = [envCurrent EXCEPT ![envConcurrencyKey] = @ \ {messageId}]
             /\ orgCurrent' = [orgCurrent EXCEPT ![orgConcurrencyKey] = @ \ {messageId}]
             /\ visibility' = ZREM(visibility, messageId)
             /\ queues' = [queues EXCEPT ![childQueueKey] = childZ]
             /\ parents' = [parents EXCEPT
                              ![parentQueueKey] = Rebalance(@, childZ, childQueueName)]
             /\ UNCHANGED messages

\* a nack script without the check of the visibility-timeout queue
luaNackMessage_NoGuard(messageKey, childQueueKey, parentQueueKey, concurrencyKey, envConcurrencyKey, orgConcurrencyKey, childQueueName, messageId, currentTime, messageScore) ==
    LET childZ == ZADD(queues[childQueueKey], messageScore, messageId)
    IN  /\ current' = [current EXCEPT ![concurrencyKey] = @ \ {messageId}]
        /\ envCurrent' = [envCurrent EXCEPT ![envConcurrencyKey] = @ \ {messageId}]
        /\ orgCurrent' = [orgCurrent EXCEPT ![orgConcurrencyKey] = @ \ {messageId}]
        /\ visibility' = ZREM(visibility, messageId)
        /\ queues' = [queues EXCEPT ![childQueueKey] = childZ]
        /\ parents' = [parents EXCEPT
                         ![parentQueueKey] = Rebalance(@, childZ, childQueueName)]
        /\ UNCHANGED messages

\* a nack script that, for an id not in flight, still sets the score of an id
\* that is in the child queue
luaNackMessage_RescoresQueued(messageKey, childQueueKey, parentQueueKey, concurrencyKey, envConcurrencyKey, orgConcurrencyKey, childQueueName, messageId, currentTime, messageScore) ==
    LET childZ == IF \/ ScoreOrZero(visibility, messageId) # 0
                     \/ messageId \in DOMAIN queues[childQueueKey]
                  THEN ZADD(queues[childQueueKey], messageScore, messageId)
                  ELSE queues[childQueueKey]
    IN  /\ current' = [current EXCEPT ![concurrencyKey] = @ \ {messageId}]
        /\ envCurrent' = [envCurrent EXCEPT ![envConcurrencyKey] = @ \ {messageId}]
        /\ orgCurrent' = [orgCurrent EXCEPT ![orgConcurrencyKey] = @ \ {messageId}]
        /\ visibility' = ZREM(visibility, messageId)
        /\ queues' = [queues EXCEPT ![childQueueKey] = childZ]
        /\ parents' = [parents EXCEPT
                         ![parentQueueKey] = Rebalance(@, childZ, childQueueName)]
        /\ UNCHANGED messages

luaNackMessage(messageKey, childQueueKey, parentQueueKey, concurrencyKey, envConcurrencyKey, orgConcurrencyKey, childQueueName, messageId, currentTime, messageScore) ==
    IF ScoreOrZero(visibility, messageId) = 0
    THEN UNCHANGED store
    ELSE LET childZ == ZADD(queues[childQueueKey], messageScore, messageId)
         IN  /\ current' = [current EXCEPT ![concurrencyKey] = @ \ {messageId}]
             /\ envCurrent' = [envCurrent EXCEPT
                                 ![envConcurrencyKey] = @ \ {messageId}]
             /\ orgCurrent' = [orgCurrent EXCEPT
                                 ![orgConcurrencyKey] = @ \ {messageId}]
             /\ visibility' = ZREM(visibility, messageId)
             /\ queues' = [queues EXCEPT ![childQueueKey] = childZ]
             /\ parents' = [parents EXCEPT
                              ![parentQueueKey] = Rebalance(@, childZ, childQueueName)]
             /\ UNCHANGED messages

Min(x, y) == IF x <= y THEN x ELSE y

\* a heartbeat script without the clamp to maxVisibilityTimeout
luaHeartbeatMessage_NoClamp(messageId, milliseconds, maxVisibilityTimeout) ==
    IF ScoreOrZero(visibility, messageId) = 0
    THEN UNCHANGED store
    ELSE /\ visibility' = ZADD(visibility,
                               visibility[messageId] + milliseconds * 1000,
                               messageId)
         /\ UNCHANGED <<messages, queues, parents, current, envCurrent, orgCurrent>>

\* a heartbeat script that sets the deadline whether or not the id is in flight
luaHeartbeatMessage_NoGuard(messageId, milliseconds, maxVisibilityTimeout) ==
    /\ visibility' = ZADD(visibility,
                          Min(ScoreOrZero(visibility, messageId) + milliseconds * 1000,
                              maxVisibilityTimeout),
                          messageId)
    /\ UNCHANGED <<messages, queues, parents, current, envCurrent, orgCurrent>>

luaHeartbeatMessage(messageId, milliseconds, maxVisibilityTimeout) ==
    IF ScoreOrZero(visibility, messageId) = 0
    THEN UNCHANGED store
    ELSE /\ visibility' = ZADD(visibility,
                               Min(visibility[messageId] + milliseconds * 1000,
                                   maxVisibilityTimeout),
                               messageId)
         /\ UNCHANGED <<messages, queues, parents, current, envCurrent, orgCurrent>>

(***************************************************************************)
(* The broker operations.  An operation that makes several round trips to  *)
(* the store is one action per round trip; between two of them the call    *)
(* is an element of calls and any other step may run.                      *)
(***************************************************************************)
MessagePayload(data, queue, concurrencyKey, timestamp, messageId, parentQueue) ==
    [version |-> "1", data |-> data, queue |-> queue,
     concurrencyKey |-> concurrencyKey, timestamp |-> timestamp,
     messageId |-> messageId, parentQueue |-> parentQueue]

\* stored values that are not the JSON text of a payload: a text JSON.parse
\* rejects, and a JSON value the MessagePayload schema rejects
Unparseable == [raw |-> "{"]
NotAPayload == [version |-> "0"]
JSONparseThrows(rawMessage) == rawMessage = Unparseable
safeParseSuccess(value) ==
    /\ ~ JSONparseThrows(value)
    /\ DOMAIN value = {"version", "data", "queue", "concurrencyKey", "timestamp",
                       "messageId", "parentQueue"}

Call(op, pc, messageId, queue, parentQueue, score, data) ==
    [op |-> op, pc |-> pc, messageId |-> messageId, queue |-> queue,
     parentQueue |-> parentQueue, score |-> score, data |-> data]

CanCall == BagCardinality(calls) < MaxCalls
\* the calls, with the calls of set s started and call c (when given) ended
Started(s) == calls (+) SetToBag(s)
Ended(c) == calls (-) SetToBag({c})
Pending == BagToSet(calls)

\* a read that returns a stored body whatever the id asked for
readMessage_AnyBody(messageId) ==
    IF DOMAIN messages = {} THEN {}
    ELSE {messages[CHOOSE k \in DOMAIN messages :
                     \A j \in DOMAIN messages : Lex(k) <= Lex(j)]}

\* #readMessage: the set holding the parsed payload, or {} when the key is
\* missing or its value is not a payload (logged); readThrows tells when
\* JSON.parse throws instead
readMessage(messageId) ==
    IF /\ keys_messageKey(messageId) \in DOMAIN messages
       /\ safeParseSuccess(messages[keys_messageKey(messageId)])
    THEN {messages[keys_messageKey(messageId)]}
    ELSE {}

readThrows(messageId) ==
    /\ keys_messageKey(messageId) \in DOMAIN messages
    /\ JSONparseThrows(messages[keys_messageKey(messageId)])

\* the call of an operation whose body read threw: the exception reaches the
\* caller and the call makes no further step
Thrown(op, messageId) == Call(op, "thrown", messageId, NoQueue, "-", 0, "-")

\* #callEnqueueMessage
callEnqueueMessage(message) ==
    luaEnqueueMessage(message.queue, message.parentQueue,
                      keys_messageKey(message.messageId), message.queue,
                      message.messageId, message, message.timestamp)

\* #callDequeueMessage
callDequeueMessage(messageQueue, parentQueue) ==
    luaDequeueMessage(messageQueue, parentQueue,
                      concurrencyLimitKeyFromQueue(messageQueue),
                      envConcurrencyLimitKeyFromQueue(messageQueue),
                      orgConcurrencyLimitKeyFromQueue(messageQueue),
                      currentConcurrencyKeyFromQueue(messageQueue),
                      envCurrentConcurrencyKeyFromQueue(messageQueue),
                      orgCurrentConcurrencyKeyFromQueue(messageQueue),
                      messageQueue, visibilityTimeoutInMs, now)

\* what #callDequeueMessage returns: {} or the set holding the messageId
callDequeueResult(messageQueue) ==
    DequeueResult(messageQueue,
                  concurrencyLimitKeyFromQueue(messageQueue),
                  envConcurrencyLimitKeyFromQueue(messageQueue),
                  orgConcurrencyLimitKeyFromQueue(messageQueue),
                  currentConcurrencyKeyFromQueue(messageQueue),
                  envCurrentConcurrencyKeyFromQueue(messageQueue),
                  orgCurrentConcurrencyKeyFromQueue(messageQueue), now)

\* #callAcknowledgeMessage with the keys the broker builds from message.queue
callAcknowledgeMessage(messageId, queue) ==
    luaAcknowledgeMessage(keys_messageKey(messageId),
                          currentConcurrencyKeyFromQueue(queue),
                          envCurrentConcurrencyKeyFromQueue(queue),
                          orgCurrentConcurrencyKeyFromQueue(queue), messageId)

\* #callNackMessage with the keys the broker builds from message.queue
callNackMessage(messageId, messageQueue, parentQueue, messageScore) ==
    luaNackMessage(keys_messageKey(messageId), messageQueue, parentQueue,
                   currentConcurrencyKeyFromQueue(messageQueue),
                   envCurrentConcurrencyKeyFromQueue(messageQueue),
                   orgCurrentConcurrencyKeyFromQueue(messageQueue),
                   messageQueue, messageId, now, messageScore)

Tick ==
    /\ now < MaxTicks * TickMs
    /\ now' = now + TickMs
    /\ UNCHANGED <<queueOf, store, limits, calls, worker>>

enqueueMessage(messageId, messageData) ==
    LET q == queueOf[messageId]
        messageQueue == queueKey(q.env, q.queue, q.ck)
        timestamp == now
        parentQueue == envSharedQueueKey(q.env)
    IN  /\ callEnqueueMessage(MessagePayload(messageData, messageQueue, q.ck,
                                             timestamp, messageId, parentQueue))
            /\ UNCHANGED <<now, queueOf, limits, calls, worker>>

(* dequeue *)
\* #callCalculateMessageCapacities and the strategy's available capacity
Available(queue) ==
    LET queueCap == GetOr(queueLimit, concurrencyLimitKeyFromQueue(queue),
                          defaultQueueConcurrency)
                    - Cardinality(current[currentConcurrencyKeyFromQueue(queue)])
        envCap == GetOr(envLimit, envConcurrencyLimitKeyFromQueue(queue),
                        defaultEnvConcurrency)
                  - Cardinality(envCurrent[envCurrentConcurrencyKeyFromQueue(queue)])
        orgCap == GetOr(orgLimit, orgConcurrencyLimitKeyFromQueue(queue),
                        defaultOrgConcurrency)
                  - Cardinality(orgCurrent[orgCurrentConcurrencyKeyFromQueue(queue)])
    IN  Min(queueCap, Min(envCap, orgCap))

\* #getRandomQueueFromParentQueue: the queues the strategy may choose
\* (the candidate window holds every member of the parent queue)
getRandomQueueFromParentQueue(parentQueue) ==
    { queue \in DOMAIN parents[parentQueue] : Available(queue) > 0 }

\* a dequeue that runs the script on a member of the parent queue although
\* the strategy chose none
dequeueChoose_NoAbort(parentQueue) ==
    /\ CanCall
    /\ \/ /\ DOMAIN parents[parentQueue] = {}
          /\ UNCHANGED calls
       \/ \E messageQueue \in DOMAIN parents[parentQueue] :
            calls' = Started({Call("dequeue", "script", "-", messageQueue,
                                      parentQueue, 0, "-")})
    /\ UNCHANGED <<now, queueOf, store, limits, worker>>

dequeueChoose(parentQueue) ==
    /\ CanCall
    /\ \/ /\ getRandomQueueFromParentQueue(parentQueue) = {}
          /\ UNCHANGED calls
       \/ \E messageQueue \in getRandomQueueFromParentQueue(parentQueue) :
            calls' = Started({Call("dequeue", "script", "-", messageQueue,
                                      parentQueue, 0, "-")})
    /\ UNCHANGED <<now, queueOf, store, limits, worker>>

dequeueMessageInEnv(env) == dequeueChoose(envSharedQueueKey(env))

dequeueMessageInSharedQueue == dequeueChoose(SHARED_QUEUE)

dequeueScript(c) ==
    /\ c.op = "dequeue" /\ c.pc = "script"
    /\ callDequeueMessage(c.queue, c.parentQueue)
    /\ LET messageData == callDequeueResult(c.queue)
       IN  calls' = Ended(c) (+)
                    SetToBag({ Call("dequeue", "read", m, NoQueue, "-", 0, "-")
                               : m \in messageData })
    /\ UNCHANGED <<now, queueOf, limits, worker>>

dequeueRead(c) ==
    /\ c.op = "dequeue" /\ c.pc = "read"
    /\ calls' = IF readThrows(c.messageId)
                THEN Ended(c) (+) SetToBag({Thrown("dequeue", c.messageId)})
                ELSE Ended(c)
    /\ UNCHANGED <<now, queueOf, store, limits, worker>>

(* ack *)
acknowledgeMessage(messageId) ==
    /\ CanCall
    /\ calls' = Started(
                IF readThrows(messageId) THEN {Thrown("ack", messageId)}
                ELSE { Call("ack", "script", messageId, message.queue,
                            message.parentQueue, 0, "-")
                       : message \in readMessage(messageId) })
    /\ UNCHANGED <<now, queueOf, store, limits, worker>>

acknowledgeScript(c) ==
    /\ c.op = "ack" /\ c.pc = "script"
    /\ callAcknowledgeMessage(c.messageId, c.queue)
    /\ calls' = Ended(c)
    /\ UNCHANGED <<now, queueOf, limits, worker>>

(* nack *)
nackMessage(messageId, retryAt) ==
    /\ CanCall
    /\ calls' = Started(
                IF readThrows(messageId) THEN {Thrown("nack", messageId)}
                ELSE { Call("nack", "script", messageId, message.queue,
                            message.parentQueue, retryAt, "-")
                       : message \in readMessage(messageId) })
    /\ UNCHANGED <<now, queueOf, store, limits, worker>>

nackScript(c) ==
    /\ c.op = "nack" /\ c.pc = "script"
    /\ callNackMessage(c.messageId, c.queue, c.parentQueue, c.score)
    /\ calls' = Ended(c)
    /\ UNCHANGED <<now, queueOf, limits, worker>>

(* replace: timestamp is {} for an absent argument, or {t} *)
replaceMessage(messageId, messageData, timestamp) ==
    /\ CanCall
    /\ calls' = Started(
                IF readThrows(messageId) THEN {Thrown("replace", messageId)}
                ELSE
                { [Call("replace", "ack", messageId, oldMessage.queue,
                        oldMessage.parentQueue, 0, messageData)
                   EXCEPT !.score = IF timestamp = {} THEN 0
                                    ELSE CHOOSE t \in timestamp : TRUE,
                          !.op = IF timestamp = {} THEN "replace" ELSE "replaceAt"]
                  : oldMessage \in readMessage(messageId) })
    /\ UNCHANGED <<now, queueOf, store, limits, worker>>

replaceAck(c) ==
    /\ c.op \in {"replace", "replaceAt"} /\ c.pc = "ack"
    /\ callAcknowledgeMessage(c.messageId, c.queue)
    /\ calls' = Ended(c) (+)
                SetToBag({ [c EXCEPT !.pc = "enqueue",
                              !.score = IF c.op = "replaceAt" THEN c.score ELSE now] })
    /\ UNCHANGED <<now, queueOf, limits, worker>>

\* a replace that enqueues at the current time whatever timestamp was given
replaceEnqueue_AtNow(c) ==
    /\ c.op \in {"replace", "replaceAt"} /\ c.pc = "enqueue"
    /\ callEnqueueMessage(MessagePayload(c.data, c.queue, c.queue.ck, now,
                                         c.messageId, c.parentQueue))
    /\ calls' = Ended(c)
    /\ UNCHANGED <<now, queueOf, limits, worker>>

replaceEnqueue(c) ==
    /\ c.op \in {"replace", "replaceAt"} /\ c.pc = "enqueue"
    /\ callEnqueueMessage(MessagePayload(c.data, c.queue, c.queue.ck, c.score,
                                         c.messageId, c.parentQueue))
    /\ calls' = Ended(c)
    /\ UNCHANGED <<now, queueOf, limits, worker>>

\* a heartbeat whose maximum is the current time, without the visibility
\* timeout the dequeue adds
heartbeatMessage_MaxIsNow(messageId, seconds) ==
    /\ luaHeartbeatMessage(messageId, seconds * 1000, now)
    /\ UNCHANGED <<now, queueOf, limits, calls, worker>>

heartbeatMessage(messageId, seconds) ==
    /\ luaHeartbeatMessage(messageId, seconds * 1000, now + visibilityTimeoutInMs)
    /\ UNCHANGED <<now, queueOf, limits, calls, worker>>

(***************************************************************************)
(* The requeueing worker (#requeueVisibleMessages), one round trip a step. *)
(***************************************************************************)
WorkerNext(batch) ==
    IF Len(batch) <= 1 THEN Idle
    ELSE [Idle EXCEPT !.pc = "get", !.batch = Tail(batch)]

\* a scan that also returns the leases that end within the next timeout
requeueScan_Early ==
    /\ worker.pc = "idle"
    /\ LET msgs == ZRangeByScore(visibility, 0, now + visibilityTimeoutInMs,
                                 RequeueBatch)
       IN  worker' = IF Len(msgs) = 0 THEN worker
                     ELSE [Idle EXCEPT !.pc = "get", !.batch = msgs]
    /\ UNCHANGED <<now, queueOf, store, limits, calls>>

requeueScan ==
    /\ worker.pc = "idle"
    /\ LET msgs == ZRangeByScore(visibility, 0, now, RequeueBatch)
       IN  worker' = IF Len(msgs) = 0 THEN worker
                     ELSE [Idle EXCEPT !.pc = "get", !.batch = msgs]
    /\ UNCHANGED <<now, queueOf, store, limits, calls>>

\* the GET and the parse; when JSON.parse throws, the exception ends this run
\* of the worker with the rest of the batch unprocessed (a later run scans
\* again)
requeueGet ==
    /\ worker.pc = "get"
    /\ LET message == Head(worker.batch)
           messageData == readMessage(message)
       IN  worker' = IF readThrows(message) THEN Idle
                     ELSE IF messageData = {}
                     THEN [worker EXCEPT !.pc = "zrem"]
                     ELSE LET parsedMessage == CHOOSE m \in messageData : TRUE
                          IN  [worker EXCEPT !.pc = "nack",
                                             !.queue = parsedMessage.queue,
                                             !.parentQueue = parsedMessage.parentQueue,
                                             !.score = parsedMessage.timestamp]
    /\ UNCHANGED <<now, queueOf, store, limits, calls>>

\* a worker that requeues at the current time instead of the body's timestamp
requeueMessage_AtNow ==
    /\ worker.pc \in {"zrem", "nack"}
    /\ IF worker.pc = "zrem"
       THEN /\ visibility' = ZREM(visibility, Head(worker.batch))
            /\ UNCHANGED <<messages, queues, parents, current, envCurrent,
                           orgCurrent>>
       ELSE callNackMessage(Head(worker.batch), worker.queue,
                            worker.parentQueue, now)
    /\ worker' = WorkerNext(worker.batch)
    /\ UNCHANGED <<now, queueOf, limits, calls>>

\* the round trip that follows the GET: ZREM when the body is missing, else
\* the nack script with the body's queue and timestamp
requeueMessage ==
    /\ worker.pc \in {"zrem", "nack"}
    /\ IF worker.pc = "zrem"
       THEN /\ visibility' = ZREM(visibility, Head(worker.batch))
            /\ UNCHANGED <<messages, queues, parents, current, envCurrent,
                           orgCurrent>>
       ELSE callNackMessage(Head(worker.batch), worker.queue,
                            worker.parentQueue, worker.score)
    /\ worker' = WorkerNext(worker.batch)
    /\ UNCHANGED <<now, queueOf, limits, calls>>

(***************************************************************************)
(* Specification.                                                          *)
(***************************************************************************)
HeartbeatSeconds == {1}
RetryDelays == {0, TickMs}
ReplaceTimestamps == {{}}
EnqueueData == {"d1"}
ReplaceData == {"d2"}

Requeue ==
    \/ requeueScan
    \/ requeueGet
    \/ requeueMessage

Next ==
    \/ Tick
    \/ \E id \in Ids, d \in EnqueueData : enqueueMessage(id, d)
    \/ \E env \in Envs : dequeueMessageInEnv(env)
    \/ dequeueMessageInSharedQueue
    \/ \E c \in Pending : dequeueScript(c)
    \/ \E c \in Pending : dequeueRead(c)
    \/ \E id \in Ids : acknowledgeMessage(id)
    \/ \E c \in Pending : acknowledgeScript(c)
    \/ \E id \in Ids, delay \in RetryDelays : nackMessage(id, now + delay)
    \/ \E c \in Pending : nackScript(c)
    \/ \E id \in Ids, s \in HeartbeatSeconds : heartbeatMessage(id, s)
    \/ Requeue

Spec == Init /\ [][Next]_vars

Replace ==
    \/ \E id \in Ids, d \in ReplaceData, ts \in ReplaceTimestamps :
         replaceMessage(id, d, ts)
    \/ \E c \in Pending : replaceAck(c)
    \/ \E c \in Pending : replaceEnqueue(c)

\* every operation, replace included; nack with the default retryAt
NextReplace ==
    \/ Tick
    \/ \E id \in Ids, d \in EnqueueData : enqueueMessage(id, d)
    \/ \E env \in Envs : dequeueMessageInEnv(env)
    \/ \E c \in Pending : dequeueScript(c)
    \/ \E c \in Pending : dequeueRead(c)
    \/ \E id \in Ids : acknowledgeMessage(id)
    \/ \E c \in Pending : acknowledgeScript(c)
    \/ \E id \in Ids : nackMessage(id, now)
    \/ \E c \in Pending : nackScript(c)
    \/ \E id \in Ids, s \in HeartbeatSeconds : heartbeatMessage(id, s)
    \/ Requeue
    \/ Replace

SpecReplace == Init /\ [][NextReplace]_vars

InChild(id) == \E q \in ChildKeys : id \in DOMAIN queues[q]
InVisibility(id) == id \in DOMAIN visibility
HasBody(id) == keys_messageKey(id) \in DOMAIN messages
InCurrent(id) ==
    \/ \E q \in ChildKeys : id \in current[q]
    \/ \E e \in Envs : id \in envCurrent[e]
    \/ \E o \in Orgs : id \in orgCurrent[o]

\* a caller that gives every message a new id: enqueue only of an id that is
\* unknown to the store
enqueueNew(messageId, messageData) ==
    /\ ~ HasBody(messageId) /\ ~ InChild(messageId)
    /\ ~ InVisibility(messageId) /\ ~ InCurrent(messageId)
    /\ enqueueMessage(messageId, messageData)

\* every operation, replace included, with new ids only
NextNew ==
    \/ Tick
    \/ \E id \in Ids, d \in EnqueueData : enqueueNew(id, d)
    \/ \E env \in Envs : dequeueMessageInEnv(env)
    \/ \E c \in Pending : dequeueScript(c)
    \/ \E c \in Pending : dequeueRead(c)
    \/ \E id \in Ids : acknowledgeMessage(id)
    \/ \E c \in Pending : acknowledgeScript(c)
    \/ \E id \in Ids : nackMessage(id, now)
    \/ \E c \in Pending : nackScript(c)
    \/ \E id \in Ids, s \in HeartbeatSeconds : heartbeatMessage(id, s)
    \/ Requeue
    \/ Replace

SpecNew == Init /\ [][NextNew]_vars

\* a consumer that takes a message and never acks, nacks or heartbeats it;
\* the clock advances and the requeueing worker keeps running
NextLease ==
    \/ Tick
    \/ \E id \in Ids, d \in EnqueueData : enqueueNew(id, d)
    \/ \E env \in Envs : dequeueMessageInEnv(env)
    \/ \E c \in Pending : dequeueScript(c)
    \/ \E c \in Pending : dequeueRead(c)
    \/ Requeue

SpecLease == Init /\ [][NextLease]_vars /\ WF_vars(Tick) /\ WF_vars(Requeue)

(***************************************************************************)
(* The claims.                                                             *)
(***************************************************************************)
LastTime == MaxTicks * TickMs
QueueLimitOf(q) ==
    GetOr(queueLimit, concurrencyLimitKeyFromQueue(q), defaultQueueConcurrency)
EnvLimitOf(e) == GetOr(envLimit, e, defaultEnvConcurrency)
OrgLimitOf(o) == GetOr(orgLimit, o, defaultOrgConcurrency)
\* the id is in the three current-concurrency sets of its queue
InAllCurrent(id) ==
    /\ id \in current[currentConcurrencyKeyFromQueue(queueOf[id])]
    /\ id \in envCurrent[envCurrentConcurrencyKeyFromQueue(queueOf[id])]
    /\ id \in orgCurrent[orgCurrentConcurrencyKeyFromQueue(queueOf[id])]

\* C1: after every completed script no message id is a member of both its
\* child queue and the visibility-timeout queue.
C1_ChildXorVisibility ==
    \A id \in Ids : ~ (InChild(id) /\ InVisibility(id))

\* C2: after every completed script the body key of an id exists if and only
\* if the id is in its child queue or in the visibility-timeout queue.
C2_BodyIffQueuedOrInFlight ==
    \A id \in Ids : HasBody(id) <=> (InChild(id) \/ InVisibility(id))

\* C3: every child queue that is a member of a parent queue is not empty and
\* its parent score is the minimum score in the child queue.
C3_ParentScoreIsChildMin ==
    \A p \in ParentKeys : \A q \in DOMAIN parents[p] :
        /\ DOMAIN queues[q] # {}
        /\ \A m \in DOMAIN queues[q] : parents[p][q] <= queues[q][m]
        /\ \E m \in DOMAIN queues[q] : parents[p][q] = queues[q][m]

\* C3 witness: a dequeue took the head of a child queue and the parent now
\* holds the child at the later score of the message that is left.
C3_Witness ==
    \E p \in ParentKeys : \E q \in DOMAIN parents[p] :
        /\ InVisibility("a") /\ queueOf["a"] = q
        /\ DOMAIN queues[q] = {"b"}
        /\ parents[p][q] = LastTime
        /\ messages["a"].timestamp < LastTime

\* C4: every id in the visibility-timeout queue is a member of the queue, env
\* and org current-concurrency sets of its queue.
C4_InFlightHoldsThreeSlots ==
    \A id \in Ids : InVisibility(id) => InAllCurrent(id)

\* C4 witness: both messages are in flight, taken by dequeues at two times.
C4_Witness ==
    /\ InVisibility("a") /\ InVisibility("b")
    /\ visibility["a"] < visibility["b"]

\* C5: the number of ids in a queue's current-concurrency set never exceeds
\* the queue's concurrency limit (the limit key, or the default).
C5_QueueCurrentWithinLimit ==
    \A q \in ChildKeys :
        Cardinality(current[currentConcurrencyKeyFromQueue(q)]) <= QueueLimitOf(q)

\* C5 witness: a queue at its explicit limit of one while a second message of
\* the queue is due, and a dequeue call on that queue is about to run.
C5_Witness ==
    \E q \in ChildKeys :
        /\ concurrencyLimitKeyFromQueue(q) \in DOMAIN queueLimit
        /\ Cardinality(current[q]) = QueueLimitOf(q)
        /\ \E m \in DOMAIN queues[q] : queues[q][m] <= now
        /\ \E c \in Pending : c.op = "dequeue" /\ c.pc = "script" /\ c.queue = q

\* one of the three sets of queue q is at its limit
AtLimit(q) ==
    \/ Cardinality(orgCurrent[orgCurrentConcurrencyKeyFromQueue(q)])
         >= OrgLimitOf(orgConcurrencyLimitKeyFromQueue(q))
    \/ Cardinality(envCurrent[envCurrentConcurrencyKeyFromQueue(q)])
         >= EnvLimitOf(envConcurrencyLimitKeyFromQueue(q))
    \/ Cardinality(current[currentConcurrencyKeyFromQueue(q)]) >= QueueLimitOf(q)

\* C6: the env and org current-concurrency sets never exceed the env and org
\* limits, and a dequeue script that runs while one of the three sets of its
\* queue is at its limit returns none: it changes nothing and the call ends.
C6_EnvOrgWithinLimit ==
    /\ [](\A e \in Envs : Cardinality(envCurrent[e]) <= EnvLimitOf(e))
    /\ [](\A o \in Orgs : Cardinality(orgCurrent[o]) <= OrgLimitOf(o))
    /\ [][\A c \in Pending :
            (dequeueScript(c) /\ AtLimit(c.queue))
               => (UNCHANGED store /\ calls' = Ended(c))]_vars

\* C6 witness: an environment at its explicit limit of one while a message of
\* another queue of that environment is due and a dequeue of it is about to run.
C6_Witness ==
    \E q \in ChildKeys :
        /\ q.env \in DOMAIN envLimit
        /\ Cardinality(envCurrent[q.env]) = EnvLimitOf(q.env)
        /\ current[q] = {}
        /\ \E m \in DOMAIN queues[q] : queues[q][m] <= now
        /\ \E c \in Pending : c.op = "dequeue" /\ c.pc = "script" /\ c.queue = q

NotInFlight(id) == ~ InVisibility(id) /\ ~ InCurrent(id)

\* C7: when the ack script of acknowledgeMessage(id) completes, the body of
\* id is deleted and id is in no child queue, not in the visibility-timeout
\* queue and in none of the current-concurrency sets.
C7_AckClearsAllState ==
    [][\A c \in Pending :
         acknowledgeScript(c)
            => (~ HasBody(c.messageId) /\ ~ InChild(c.messageId)
                /\ NotInFlight(c.messageId))']_vars

\* C8: an id whose body was deleted by an ack and that is not in flight is not
\* put in flight by any step (only an ack deletes a body, and the body is
\* absent until an enqueue script for the id runs again).
C8_DeletedIsTerminal ==
    [][\A id \in Ids :
         (~ HasBody(id) /\ NotInFlight(id)) => NotInFlight(id)']_vars

\* C9: when an ack script or a nack script for an id completes (a nack of the
\* broker or of the requeueing worker), the id is in none of the three
\* current-concurrency sets and not in the visibility-timeout queue.
C9_AckNackReleaseSlots ==
    /\ [][\A c \in Pending :
            (acknowledgeScript(c) \/ nackScript(c)) => NotInFlight(c.messageId)']_vars
    /\ [][(worker.pc = "nack" /\ requeueMessage)
            => \A id \in Ids : id = Head(worker.batch) => NotInFlight(id)']_vars

\* the message is back in its child queue at the timestamp of its body, with
\* its three slots released
Requeued(id) ==
    /\ HasBody(id)
    /\ id \in DOMAIN queues[queueOf[id]]
    /\ queues[queueOf[id]][id] = messages[id].timestamp
    /\ NotInFlight(id)

\* C10: a message in flight whose lease ends within the time of the model and
\* that is never acked, nacked or heartbeated is eventually back in its child
\* queue at the enqueue timestamp of its body, with its slots released.
C10_ExpiredLeaseIsRequeued ==
    \A id \in Ids :
        (InVisibility(id) /\ HasBody(id) /\ visibility[id] <= LastTime)
            ~> Requeued(id)

\* C10 witness: the worker has read the body of an expired lease and is about
\* to run the nack script with the body's timestamp, older than the clock.
C10_Witness ==
    /\ worker.pc = "nack" /\ Head(worker.batch) = "a"
    /\ InVisibility("a") /\ visibility["a"] <= now
    /\ worker.score = messages["a"].timestamp
    /\ worker.score < now

\* the id is queued or in flight and its body is present
Stored(id) == HasBody(id) /\ (InChild(id) \/ InVisibility(id))

\* nothing is in flight, no call or worker step is under way and no message
\* is due: a dequeue now takes nothing
Drained ==
    /\ calls = EmptyBag /\ visibility = EmptyZ /\ worker.pc = "idle"
    /\ \A q \in ChildKeys : ZFirstByScore(queues[q], now) = {}

\* a step that needs an ack of the id: the ack script itself, or the worker's
\* ZREM of an id whose body it found missing (only an ack deletes a body)
AfterAck(id) ==
    \/ \E c \in Pending : c.messageId = id /\ acknowledgeScript(c)
    \/ worker.pc = "zrem" /\ Head(worker.batch) = id /\ requeueMessage

\* the enqueue script stores the id, and every step that needs no ack of the
\* id keeps a stored id stored
C11_NoLoss ==
    /\ [][\A id \in Ids, d \in EnqueueData :
            enqueueMessage(id, d) => Stored(id)']_vars
    /\ [][\A id \in Ids : (Stored(id) /\ ~ AfterAck(id)) => Stored(id)']_vars

\* C11: no message is lost: an id that was enqueued and not acked is, after
\* every completed script, in its child queue or in the visibility-timeout
\* queue with its body present; and after draining the enqueued ids are the
\* acked ids plus the still-queued ids, so no still-queued id is an acked id
\* (an id whose body an ack script deleted).
C11_NoMessageLost ==
    /\ C11_NoLoss
    /\ [](Drained => \A id \in Ids : InChild(id) => HasBody(id))

\* the ids a step takes out of child queue q
Taken(q) == DOMAIN queues[q] \ DOMAIN queues'[q]

\* C12: an id that a dequeue script takes from a child queue has the minimum
\* score of that child queue and a score <= now, so of two messages of one
\* queue the one with the earlier score is delivered first; a dequeue script
\* on a child queue with no due message changes nothing and returns nothing.
C12_DequeueTakesDueMinimum ==
    [][\A c \in Pending :
         dequeueScript(c)
            => /\ \A m \in Taken(c.queue) :
                    /\ queues[c.queue][m] <= now
                    /\ \A n \in DOMAIN queues[c.queue] :
                         queues[c.queue][m] <= queues[c.queue][n]
               /\ (\A m \in DOMAIN queues[c.queue] : queues[c.queue][m] > now)
                    => (UNCHANGED store /\ calls' = Ended(c))]_vars

\* C12 witness: a dequeue has just returned message a while message b of the
\* same child queue, enqueued later, is still queued.
C12_Witness ==
    /\ \E c \in Pending : c.op = "dequeue" /\ c.pc = "read" /\ c.messageId = "a"
    /\ InVisibility("a") /\ HasBody("a")
    /\ queueOf["b"] = queueOf["a"]
    /\ "b" \in DOMAIN queues[queueOf["b"]]
    /\ messages["a"].timestamp < queues[queueOf["b"]]["b"]

\* callers that give each message id its own data
DataOf(id) == IF id = "a" THEN "d1" ELSE "d2"

\* enqueue of new ids with their data, dequeue on both paths, ack, nack and
\* the requeueing worker; no replace and no enqueue of an id the store knows
NextRoundTrip ==
    \/ Tick
    \/ \E id \in Ids : enqueueNew(id, DataOf(id))
    \/ \E env \in Envs : dequeueMessageInEnv(env)
    \/ dequeueMessageInSharedQueue
    \/ \E c \in Pending : dequeueScript(c)
    \/ \E c \in Pending : dequeueRead(c)
    \/ \E id \in Ids : acknowledgeMessage(id)
    \/ \E c \in Pending : acknowledgeScript(c)
    \/ \E id \in Ids : nackMessage(id, now)
    \/ \E c \in Pending : nackScript(c)
    \/ Requeue

SpecRoundTrip == Init /\ [][NextRoundTrip]_vars

Acked(id) == ~ HasBody(id) /\ ~ InVisibility(id)

\* a step of a heartbeat or nack call on the id: the heartbeat script, the
\* body read of a nack, or the script of a nack that read the body earlier
HeartbeatOrNack(id) ==
    \/ \E s \in HeartbeatSeconds : heartbeatMessage(id, s)
    \/ \E delay \in RetryDelays : nackMessage(id, now + delay)
    \/ \E c \in Pending : c.messageId = id /\ nackScript(c)

\* C14: once an ack of an id has completed, every step of a heartbeat or nack
\* call on that id leaves the store unchanged (child and parent queues,
\* visibility-timeout queue, concurrency sets, bodies), and a nack call that
\* starts then ends at its body read.
C14_AckThenHeartbeatNackNoOp ==
    [][\A id \in Ids :
         (Acked(id) /\ HeartbeatOrNack(id))
            => /\ UNCHANGED store
               /\ (\E delay \in RetryDelays : nackMessage(id, now + delay))
                    => UNCHANGED calls]_vars

\* C14 witness: a nack of a read the body of a, an ack of a then completed,
\* and the nack's script is still to run; b is in flight.
C14_Witness ==
    /\ Acked("a")
    /\ \E c \in Pending : c.op = "nack" /\ c.pc = "script" /\ c.messageId = "a"
    /\ InVisibility("b")

\* C15: a nack script that runs on an in-flight id puts the id in its child
\* queue at score retryAt and out of the visibility-timeout queue, and no
\* dequeue script takes an id whose score is greater than the script's now.
C15_NackWithBackoff ==
    /\ [][\A c \in Pending :
            (nackScript(c) /\ InVisibility(c.messageId))
               => /\ c.messageId \in DOMAIN queues'[c.queue]
                  /\ queues'[c.queue][c.messageId] = c.score
                  /\ ~ InVisibility(c.messageId)']_vars
    /\ [][\A c \in Pending :
            dequeueScript(c)
               => \A m \in DOMAIN queues[c.queue] :
                    queues[c.queue][m] > now => m \in DOMAIN queues'[c.queue]]_vars

\* C15 witness: a was nacked with a retryAt in the future: it is queued at a
\* score greater than now, and a dequeue script on its queue is about to run.
C15_Witness ==
    /\ HasBody("a") /\ "a" \in DOMAIN queues[queueOf["a"]]
    /\ queues[queueOf["a"]]["a"] > now
    /\ \E c \in Pending : /\ c.op = "dequeue" /\ c.pc = "script"
                          /\ c.queue = queueOf["a"]

\* C16: a heartbeat of an in-flight id for a number of seconds sets the id's
\* visibility deadline to the smaller of its deadline plus seconds * 1000
\* milliseconds and now plus the visibility timeout.
C16_HeartbeatExtendsBySeconds ==
    [][\A id \in Ids, s \in HeartbeatSeconds :
         (heartbeatMessage(id, s) /\ InVisibility(id))
            => /\ InVisibility(id)'
               /\ visibility'[id] = Min(visibility[id] + s * 1000,
                                        now + visibilityTimeoutInMs)]_vars

(***************************************************************************)
(* Long leases: consumers take their messages at the first instant and     *)
(* heartbeat them when they like; the clock runs for MaxLeaseTicks ticks.  *)
(***************************************************************************)
MaxLeaseTicks == 3

TickLease ==
    /\ now < MaxLeaseTicks * TickMs
    /\ now' = now + TickMs
    /\ UNCHANGED <<queueOf, store, limits, calls, worker>>

\* the time of every dequeue, hence the start of every lease
LeaseStart == TickMs

dequeueAtStart(env) == now = LeaseStart /\ dequeueMessageInEnv(env)

dequeueScriptAtStart(c) == now = LeaseStart /\ dequeueScript(c)

NextLongLease ==
    \/ TickLease
    \/ \E id \in Ids, d \in EnqueueData : enqueueNew(id, d)
    \/ \E env \in Envs : dequeueAtStart(env)
    \/ \E c \in Pending : dequeueScriptAtStart(c)
    \/ \E c \in Pending : dequeueRead(c)
    \/ \E id \in Ids, s \in HeartbeatSeconds : heartbeatMessage(id, s)
    \/ Requeue

SpecLongLease == Init /\ [][NextLongLease]_vars

\* the deadline the dequeue of a lease sets
OriginalLease == LeaseStart + visibilityTimeoutInMs

\* C17 as stated: the deadline of an in-flight message never exceeds the
\* deadline set by its dequeue plus the visibility timeout.
C17_DeadlineWithinOriginalLease ==
    \A id \in Ids :
        InVisibility(id) => visibility[id] <= OriginalLease + visibilityTimeoutInMs

\* C17 amended: the deadline of an in-flight message never exceeds the current
\* time plus the visibility timeout (the clamp is taken from the time of each
\* heartbeat, not from the original lease).
C17_DeadlineWithinNowPlusTimeout ==
    \A id \in Ids : InVisibility(id) => visibility[id] <= now + visibilityTimeoutInMs

\* C17 witness: a heartbeat has moved the deadline of a past its original
\* lease, onto the clamp.
C17_Witness ==
    /\ InVisibility("a")
    /\ visibility["a"] > OriginalLease
    /\ visibility["a"] = now + visibilityTimeoutInMs

(***************************************************************************)
(* Heartbeating consumers: the clock moves in beats of half a visibility   *)
(* timeout.  Until StopTime the consumer of every in-flight message        *)
(* heartbeats it within each beat; from StopTime on nobody heartbeats.     *)
(***************************************************************************)
StopBeats == 3
MaxBeats == 5
BeatMs == visibilityTimeoutInMs \div 2
StopTime == TickMs + StopBeats * BeatMs
EndTime == TickMs + MaxBeats * BeatMs

\* every lease was taken or heartbeated at the current instant
AllHeartbeated ==
    \A id \in DOMAIN visibility : visibility[id] = now + visibilityTimeoutInMs

TickBeat ==
    /\ now < EndTime
    /\ now < StopTime => AllHeartbeated
    /\ now' = now + BeatMs
    /\ UNCHANGED <<queueOf, store, limits, calls, worker>>

heartbeatWhile(messageId, seconds) ==
    now < StopTime /\ heartbeatMessage(messageId, seconds)

Heartbeats == \E id \in Ids, s \in HeartbeatSeconds : heartbeatWhile(id, s)

NextHeartbeat ==
    \/ TickBeat
    \/ \E id \in Ids, d \in EnqueueData : enqueueNew(id, d)
    \/ \E env \in Envs : dequeueMessageInEnv(env)
    \/ \E c \in Pending : dequeueScript(c)
    \/ \E c \in Pending : dequeueRead(c)
    \/ Heartbeats
    \/ Requeue

SpecHeartbeat ==
    Init /\ [][NextHeartbeat]_vars
         /\ WF_vars(TickBeat) /\ WF_vars(Heartbeats) /\ WF_vars(Requeue)

\* C18: while consumers heartbeat within every beat (a beat is shorter than
\* the visibility timeout) no in-flight message leaves the visibility-timeout
\* queue; a message leaves it only when its deadline has passed; and once
\* the heartbeats have stopped, a message whose deadline falls within the
\* time of the model is returned to its child queue.
C18_HeartbeatHoldsLease ==
    /\ [][\A id \in Ids :
            (now < StopTime /\ InVisibility(id)) => InVisibility(id)']_vars
    /\ [][\A id \in Ids :
            (InVisibility(id) /\ ~ InVisibility(id)') => visibility[id] <= now]_vars
    /\ \A id \in Ids :
         (now >= StopTime /\ InVisibility(id) /\ HasBody(id)
            /\ visibility[id] <= EndTime) ~> Requeued(id)

\* C18 witness: heartbeats have kept a in flight past the deadline its
\* dequeue set, the heartbeats have stopped, and the worker is about to
\* return a to its queue.
C18_Witness ==
    /\ now >= StopTime
    /\ InVisibility("a") /\ visibility["a"] <= now
    /\ messages["a"].timestamp + visibilityTimeoutInMs < visibility["a"]
    /\ worker.pc = "nack" /\ Head(worker.batch) = "a"

(***************************************************************************)
(* Racing consumers: ack and nack calls start only on in-flight messages,  *)
(* and any number of them may be under way for one message.                *)
(***************************************************************************)
ackInFlight(messageId) == InVisibility(messageId) /\ acknowledgeMessage(messageId)

nackInFlight(messageId) == InVisibility(messageId) /\ nackMessage(messageId, now)

NextRace ==
    \/ \E id \in Ids, d \in EnqueueData : enqueueNew(id, d)
    \/ \E env \in Envs : dequeueMessageInEnv(env)
    \/ \E c \in Pending : dequeueScript(c)
    \/ \E c \in Pending : dequeueRead(c)
    \/ \E id \in Ids : ackInFlight(id)
    \/ \E c \in Pending : acknowledgeScript(c)
    \/ \E id \in Ids : nackInFlight(id)
    \/ \E c \in Pending : nackScript(c)

SpecRace == Init /\ [][NextRace]_vars

\* the three states of a message id, and no trace of the id in the store
Deleted(id) == ~ HasBody(id) /\ ~ InChild(id) /\ NotInFlight(id)
Queued(id) == HasBody(id) /\ InChild(id) /\ NotInFlight(id)
InFlight(id) ==
    HasBody(id) /\ ~ InChild(id) /\ InVisibility(id) /\ InAllCurrent(id)

\* an ack or nack call on the id is between its body read and its script
Racing(id) == \E c \in Pending : c.op \in {"ack", "nack"} /\ c.messageId = id

\* C19: when ack and nack calls on one in-flight id race, the script that
\* runs after the lease has ended changes nothing, and once no such call is
\* under way the id is deleted (acked), queued with its body (requeued), or
\* in flight again.
C19_AckNackRaceOneWins ==
    /\ [][\A c \in Pending :
            ((acknowledgeScript(c) \/ nackScript(c)) /\ ~ InVisibility(c.messageId))
               => UNCHANGED store]_vars
    /\ [](\A id \in Ids :
            ~ Racing(id) => (Deleted(id) \/ Queued(id) \/ InFlight(id)))

(***************************************************************************)
(* The requeueing worker beside consumers that ack or nack their in-flight *)
(* messages and take messages again; nobody heartbeats, so a lease that    *)
(* ends after now is not the lease the worker saw expired.                 *)
(***************************************************************************)
NextOverlap ==
    \/ Tick
    \/ \E id \in Ids, d \in EnqueueData : enqueueNew(id, d)
    \/ \E env \in Envs : dequeueMessageInEnv(env)
    \/ \E c \in Pending : dequeueScript(c)
    \/ \E c \in Pending : dequeueRead(c)
    \/ \E id \in Ids : ackInFlight(id)
    \/ \E c \in Pending : acknowledgeScript(c)
    \/ \E id \in Ids : nackInFlight(id)
    \/ \E c \in Pending : nackScript(c)
    \/ Requeue

SpecOverlap == Init /\ [][NextOverlap]_vars

\* the lease the worker saw expired is over: the id is not in flight, or it
\* is in flight on a later lease, one that has not expired
ObservedLeaseEnded(id) == ~ InVisibility(id) \/ visibility[id] > now

\* C20: the nack script that the requeueing worker runs for a lease it saw
\* expired changes nothing when that lease was ended before the script runs,
\* also when the message was dequeued again in between.
C20_WorkerNackAfterLeaseEnded ==
    [][(worker.pc = "nack" /\ requeueMessage)
         => (ObservedLeaseEnded(Head(worker.batch)) => UNCHANGED store)]_vars

\* C21: the id a dequeue script returns was not in flight when the script
\* ran, is in flight after it and is no longer in the child queue, so two
\* dequeue scripts with no enqueue, nack, requeue or replace of the id between
\* them never return the same id.
C21_DequeuesTakeDistinctIds ==
    [][\A c \in Pending :
         dequeueScript(c)
            => \A m \in callDequeueResult(c.queue) :
                 /\ ~ InVisibility(m)
                 /\ InVisibility(m)'
                 /\ m \notin DOMAIN queues'[c.queue]]_vars

\* C21 witness: two dequeues of one child queue are under way at once, one
\* has taken a and the other b.
C21_Witness ==
    /\ queueOf["a"] = queueOf["b"]
    /\ InVisibility("a") /\ InVisibility("b")
    /\ \E c \in Pending : c.op = "dequeue" /\ c.pc = "read" /\ c.messageId = "a"
    /\ \E c \in Pending : c.op = "dequeue" /\ c.pc = "read" /\ c.messageId = "b"

(***************************************************************************)
(* Limit updates: updateQueueConcurrencyLimits beside consumers that ack   *)
(* or nack their in-flight messages.                                       *)
(***************************************************************************)
queueConcurrencyLimitKey(env, queue) == <<env, queue>>

UpdateLimits == {1, 2}

updateQueueConcurrencyLimits(env, queue, concurrency) ==
    /\ queueLimit' = SET(queueLimit, queueConcurrencyLimitKey(env, queue), concurrency)
    /\ UNCHANGED <<now, queueOf, store, envLimit, orgLimit, calls, worker>>

NextLimits ==
    \/ \E k \in LimitKeys, n \in UpdateLimits :
         updateQueueConcurrencyLimits(k[1], k[2], n)
    \/ \E id \in Ids, d \in EnqueueData : enqueueNew(id, d)
    \/ \E env \in Envs : dequeueMessageInEnv(env)
    \/ \E c \in Pending : dequeueScript(c)
    \/ \E c \in Pending : dequeueRead(c)
    \/ \E id \in Ids : ackInFlight(id)
    \/ \E c \in Pending : acknowledgeScript(c)
    \/ \E id \in Ids : nackInFlight(id)
    \/ \E c \in Pending : nackScript(c)

SpecLimits == Init /\ [][NextLimits]_vars

\* the env and org sets of queue q are below their limits
EnvOrgBelowLimit(q) ==
    /\ Cardinality(envCurrent[envCurrentConcurrencyKeyFromQueue(q)])
         < EnvLimitOf(envConcurrencyLimitKeyFromQueue(q))
    /\ Cardinality(orgCurrent[orgCurrentConcurrencyKeyFromQueue(q)])
         < OrgLimitOf(orgConcurrencyLimitKeyFromQueue(q))

\* C22: updateQueueConcurrencyLimits(env, queue, n) sets the limit the dequeue
\* script of the queue reads; a dequeue script returns nothing while the
\* queue's current-concurrency set holds that many ids, due messages or not;
\* an ack script, and a nack script on an in-flight id, take the id out of
\* the set; and a dequeue script that runs with the set below the limit (env
\* and org too) takes the oldest due message of the queue.
C22_QueueLimitCapsDequeue ==
    /\ [][\A k \in LimitKeys, n \in UpdateLimits :
            updateQueueConcurrencyLimits(k[1], k[2], n)
               => \A q \in ChildKeys :
                    concurrencyLimitKeyFromQueue(q) = k => QueueLimitOf(q)' = n]_vars
    /\ [][\A c \in Pending :
            (dequeueScript(c)
               /\ Cardinality(current[currentConcurrencyKeyFromQueue(c.queue)])
                    >= QueueLimitOf(c.queue))
               => (UNCHANGED store /\ calls' = Ended(c))]_vars
    /\ [][\A c \in Pending :
            ((acknowledgeScript(c) \/ nackScript(c)) /\ InVisibility(c.messageId))
               => c.messageId
                    \notin current'[currentConcurrencyKeyFromQueue(c.queue)]]_vars
    /\ [][\A c \in Pending :
            (dequeueScript(c)
               /\ Cardinality(current[currentConcurrencyKeyFromQueue(c.queue)])
                    < QueueLimitOf(c.queue)
               /\ EnvOrgBelowLimit(c.queue))
               => \A m \in ZFirstByScore(queues[c.queue], now) :
                    /\ InVisibility(m)'
                    /\ \E r \in BagToSet(calls') :
                         r.op = "dequeue" /\ r.pc = "read" /\ r.messageId = m]_vars

\* C22 witness: the limit of one queue was set to 1, a is in flight, b of the
\* same queue is due and a dequeue script on the queue is about to run.
C22_Witness ==
    /\ DOMAIN queueLimit = {queueConcurrencyLimitKey("E1", "q1")}
    /\ queueLimit[queueConcurrencyLimitKey("E1", "q1")] = 1
    /\ queueOf["b"] = queueOf["a"]
    /\ InVisibility("a") /\ current[queueOf["a"]] = {"a"}
    /\ "b" \in DOMAIN queues[queueOf["b"]] /\ queues[queueOf["b"]]["b"] <= now
    /\ \E c \in Pending : c.op = "dequeue" /\ c.pc = "script" /\ c.queue = queueOf["b"]

(***************************************************************************)
(* Replace on its own: a replace starts when no call is under way and      *)
(* nothing else runs until it has completed.                               *)
(***************************************************************************)
ReplaceTimestampsAll == {{}} \cup {{t} : t \in Times}

Replacing == \E c \in Pending : c.op \in {"replace", "replaceAt"}

replaceAlone(messageId, messageData, timestamp) ==
    calls = EmptyBag /\ replaceMessage(messageId, messageData, timestamp)

NextReplaceAlone ==
    \/ /\ ~ Replacing
       /\ \/ Tick
          \/ \E id \in Ids, d \in EnqueueData : enqueueNew(id, d)
          \/ \E env \in Envs : dequeueMessageInEnv(env)
          \/ \E c \in Pending : dequeueScript(c)
          \/ \E c \in Pending : dequeueRead(c)
          \/ \E id \in Ids, d \in ReplaceData, ts \in ReplaceTimestampsAll :
               replaceAlone(id, d, ts)
    \/ \E c \in Pending : replaceAck(c)
    \/ \E c \in Pending : replaceEnqueue(c)

SpecReplaceAlone == Init /\ [][NextReplaceAlone]_vars

\* C23: when a replace with no concurrent operation completes, the message
\* is queued in the child queue it belonged to and in no other, under the
\* same parent queue and concurrency key, at the timestamp given (now when
\* none was given); its body carries the new data and the same id; it is in
\* neither the visibility-timeout queue nor any current-concurrency set.  A
\* replace of an id with no body changes nothing.
C23_ReplacePreservesIdentity ==
    /\ [][\A c \in Pending :
            replaceEnqueue(c)
               => /\ c.queue = queueOf[c.messageId]
                  /\ HasBody(c.messageId)'
                  /\ messages'[c.messageId]
                       = MessagePayload(c.data, c.queue, c.queue.ck,
                                        IF c.op = "replaceAt" THEN c.score ELSE now,
                                        c.messageId, envSharedQueueKey(c.queue.env))
                  /\ \A q \in ChildKeys :
                       c.messageId \in DOMAIN queues'[q] <=> q = c.queue
                  /\ queues'[c.queue][c.messageId] = messages'[c.messageId].timestamp
                  /\ c.queue \in DOMAIN parents'[envSharedQueueKey(c.queue.env)]
                  /\ NotInFlight(c.messageId)']_vars
    /\ [][\A id \in Ids, d \in ReplaceData, ts \in ReplaceTimestampsAll :
            (replaceAlone(id, d, ts) /\ ~ HasBody(id))
               => UNCHANGED <<store, calls>>]_vars

\* C23 witness: a was in flight and has been replaced with new data and a
\* timestamp earlier than now: it is queued again at that timestamp.
C23_Witness ==
    /\ Queued("a") /\ messages["a"].data \in ReplaceData
    /\ messages["a"].timestamp < now
    /\ queues[queueOf["a"]]["a"] = messages["a"].timestamp
    /\ ~ Replacing

(***************************************************************************)
(* Unknown ids                                                             *)
(***************************************************************************)
Unknown(id) == ~ HasBody(id) /\ ~ InChild(id) /\ ~ InVisibility(id) /\ ~ InCurrent(id)

\* C24: for an id with no body and in no structure, an ack call, a nack call
\* and a heartbeat call each leave the whole store unchanged, and the ack and
\* the nack end at the body read (they start no script).
C24_UnknownIdNoOp ==
    [][\A id \in Ids :
         (/\ Unknown(id)
          /\ \/ acknowledgeMessage(id)
             \/ \E delay \in RetryDelays : nackMessage(id, now + delay)
             \/ \E s \in HeartbeatSeconds : heartbeatMessage(id, s))
            => UNCHANGED <<store, calls>>]_vars

\* C24 witness: b is unknown to the broker while a is in flight and time has
\* passed: ack, nack and heartbeat of b can run here.
C24_Witness ==
    /\ Unknown("b") /\ InVisibility("a") /\ HasBody("a")
    /\ now > TickMs /\ CanCall

(***************************************************************************)
(* Garbled bodies: the value of a message key is overwritten from outside  *)
(* the broker with a text that is not JSON or with JSON that is not a      *)
(* payload.                                                                *)
(***************************************************************************)
Garbled(id) == HasBody(id) /\ ~ safeParseSuccess(messages[keys_messageKey(id)])

garble(messageId, rawMessage) ==
    /\ HasBody(messageId) /\ ~ Garbled(messageId)
    /\ messages' = SET(messages, keys_messageKey(messageId), rawMessage)
    /\ UNCHANGED <<now, queueOf, queues, parents, visibility, current, envCurrent,
                   orgCurrent, limits, calls, worker>>

NextGarbled ==
    \/ Tick
    \/ \E id \in Ids, d \in EnqueueData : enqueueNew(id, d)
    \/ \E id \in Ids, raw \in {Unparseable, NotAPayload} : garble(id, raw)
    \/ \E env \in Envs : dequeueMessageInEnv(env)
    \/ \E c \in Pending : dequeueScript(c)
    \/ \E c \in Pending : dequeueRead(c)
    \/ \E id \in Ids : acknowledgeMessage(id)
    \/ \E c \in Pending : acknowledgeScript(c)
    \/ \E id \in Ids, delay \in RetryDelays : nackMessage(id, now + delay)
    \/ \E c \in Pending : nackScript(c)

SpecGarbled == Init /\ [][NextGarbled]_vars

Raised == \E c \in Pending : c.pc = "thrown"

\* the half that holds: on a body that is JSON but not a payload, ack and
\* nack start no script and change nothing, the read of a dequeue returns
\* none, and none of them raises
C25_NotAPayloadNoOp ==
    [][\A id \in Ids :
         (HasBody(id) /\ messages[keys_messageKey(id)] = NotAPayload)
            => /\ (\/ acknowledgeMessage(id)
                   \/ \E delay \in RetryDelays : nackMessage(id, now + delay))
                    => UNCHANGED <<store, calls>>
               /\ \A c \in Pending :
                    (c.messageId = id /\ dequeueRead(c))
                       => /\ readMessage(id) = {}
                          /\ calls' = Ended(c)]_vars

\* C25: with a garbled body (not parseable, or parseable but not a payload)
\* no broker call raises; ack and nack of the id start no script and change
\* nothing, and the body read of a dequeue returns none.
C25_GarbledBodyNoRaise ==
    /\ [](~ Raised)
    /\ [][\A id \in Ids :
            Garbled(id)
               => /\ (\/ acknowledgeMessage(id)
                      \/ \E delay \in RetryDelays : nackMessage(id, now + delay))
                       => UNCHANGED <<store, calls>>
                  /\ \A c \in Pending :
                       (c.messageId = id /\ dequeueRead(c))
                          => /\ readMessage(id) = {}
                             /\ calls' = Ended(c)]_vars

(***************************************************************************)
(* The tracing wrapper (#trace).  fn is what the wrapped function did: the *)
(* value it returned and whether it called abort, or that it threw.  The   *)
(* span of a finished dequeue stays in calls, so that it can be observed.  *)
(***************************************************************************)
MaxSpans == 3

Returns(value, abort) == [returns |-> value, abort |-> abort, throws |-> FALSE]
Throws == [returns |-> "-", abort |-> FALSE, throws |-> TRUE]

\* try { return await fn(span, aborter) } catch (e) { span.recordException(e);
\* throw e } finally { if (!_abort) span.end() }
trace(name, fn) ==
    [span |-> name,
     aborted |-> fn.abort,
     recorded |-> fn.throws,
     result |-> IF fn.throws THEN "throws" ELSE fn.returns,
     ends |-> IF fn.abort THEN 0 ELSE 1]

Spans == {c \in Pending : "span" \in DOMAIN c}
Running == {c \in Pending : "op" \in DOMAIN c}
CanTrace == BagCardinality(calls) < MaxSpans

tracedDequeueChoose(name, parentQueue) ==
    /\ CanTrace
    /\ \/ /\ getRandomQueueFromParentQueue(parentQueue) = {}
          /\ calls' = Started({trace(name, Returns("none", TRUE))})
       \/ \E messageQueue \in getRandomQueueFromParentQueue(parentQueue) :
            calls' = Started({Call("dequeue", "script", "-", messageQueue,
                                   parentQueue, 0, name)})
    /\ UNCHANGED <<now, queueOf, store, limits, worker>>

tracedDequeueMessageInEnv(env) ==
    tracedDequeueChoose("dequeueMessageInEnv", envSharedQueueKey(env))

tracedDequeueMessageInSharedQueue ==
    tracedDequeueChoose("dequeueMessageInSharedQueue", SHARED_QUEUE)

tracedDequeueScript(c) ==
    /\ c.op = "dequeue" /\ c.pc = "script"
    /\ callDequeueMessage(c.queue, c.parentQueue)
    /\ LET messageData == callDequeueResult(c.queue)
       IN  calls' = Ended(c) (+)
                    SetToBag(IF messageData = {}
                             THEN {trace(c.data, Returns("none", TRUE))}
                             ELSE { Call("dequeue", "read", m, NoQueue, "-", 0, c.data)
                                    : m \in messageData })
    /\ UNCHANGED <<now, queueOf, limits, worker>>

tracedDequeueRead(c) ==
    /\ c.op = "dequeue" /\ c.pc = "read"
    /\ calls' = Ended(c) (+)
                SetToBag({trace(c.data,
                                IF readThrows(c.messageId) THEN Throws
                                ELSE IF readMessage(c.messageId) = {}
                                     THEN Returns("none", TRUE)
                                     ELSE Returns("message", FALSE))})
    /\ UNCHANGED <<now, queueOf, store, limits, worker>>

\* the round trip a dequeue is about to make fails with a store error
tracedStoreError(c) ==
    /\ c.op = "dequeue"
    /\ calls' = Ended(c) (+) SetToBag({trace(c.data, Throws)})
    /\ UNCHANGED <<now, queueOf, store, limits, worker>>

NextTrace ==
    \/ Tick
    \/ \E id \in Ids, d \in EnqueueData : enqueueNew(id, d)
    \/ \E id \in Ids, raw \in {Unparseable, NotAPayload} : garble(id, raw)
    \/ \E id \in Ids : CanTrace /\ acknowledgeMessage(id)
    \/ \E c \in Running : acknowledgeScript(c)
    \/ \E env \in Envs : tracedDequeueMessageInEnv(env)
    \/ tracedDequeueMessageInSharedQueue
    \/ \E c \in Running : tracedDequeueScript(c)
    \/ \E c \in Running : tracedDequeueRead(c)
    \/ \E c \in Running : tracedStoreError(c)

SpecTrace == Init /\ [][NextTrace]_vars

Readable(id) == HasBody(id) /\ safeParseSuccess(messages[keys_messageKey(id)])

\* every span is ended once unless abort was called, and then not at all; an
\* exception is recorded on the span and reaches the caller
SpanEndedUnlessAborted ==
    \A s \in Spans :
       /\ s.ends = (IF s.aborted THEN 0 ELSE 1)
       /\ (s.result = "throws") <=> s.recorded

\* the half that holds: the spans are ended unless aborted, exceptions are
\* recorded and rethrown, and a dequeue that finds no queue, no due message
\* or no stored body (or one that is JSON but not a payload) aborts and
\* returns none
C26_SpanEndedUnlessAbortedMissingBody ==
    /\ [] SpanEndedUnlessAborted
    /\ [][/\ \A env \in Envs :
               (/\ getRandomQueueFromParentQueue(envSharedQueueKey(env)) = {}
                /\ tracedDequeueMessageInEnv(env))
                  => calls' = Started({trace("dequeueMessageInEnv",
                                             Returns("none", TRUE))})
          /\ \A c \in Running :
               /\ (tracedDequeueScript(c) /\ callDequeueResult(c.queue) = {})
                    => calls' = Ended(c) (+)
                                SetToBag({trace(c.data, Returns("none", TRUE))})
               /\ (tracedDequeueRead(c) /\ ~ Readable(c.messageId)
                                        /\ ~ readThrows(c.messageId))
                    => calls' = Ended(c) (+)
                                SetToBag({trace(c.data, Returns("none", TRUE))})
               /\ tracedStoreError(c)
                    => \E s \in Spans' : s.result = "throws" /\ s.recorded /\ s.ends = 1]_vars

\* C26: the span of an operation is ended exactly once if and only if abort
\* was not called; an exception thrown by the operation is recorded on the
\* span and rethrown; a dequeue that finds no queue, no due message or no
\* readable body calls abort and returns none.
C26_SpanEndedIffNotAborted ==
    /\ [] SpanEndedUnlessAborted
    /\ [][/\ \A env \in Envs :
               (/\ getRandomQueueFromParentQueue(envSharedQueueKey(env)) = {}
                /\ tracedDequeueMessageInEnv(env))
                  => calls' = Started({trace("dequeueMessageInEnv",
                                             Returns("none", TRUE))})
          /\ \A c \in Running :
               /\ (tracedDequeueScript(c) /\ callDequeueResult(c.queue) = {})
                    => calls' = Ended(c) (+)
                                SetToBag({trace(c.data, Returns("none", TRUE))})
               /\ (tracedDequeueRead(c) /\ ~ Readable(c.messageId))
                    => calls' = Ended(c) (+)
                                SetToBag({trace(c.data, Returns("none", TRUE))})
               /\ tracedStoreError(c)
                    => \E s \in Spans' : s.result = "throws" /\ s.recorded /\ s.ends = 1]_vars

(***************************************************************************)
(* sanitizeQueueName.  A string is a sequence of one-character strings.    *)
(* The inputs are made of up to MaxRuns runs of one character, of lengths  *)
(* around the cut at 128, over allowed and disallowed characters.          *)
(***************************************************************************)
MaxRuns == 3

LowerCase == {"a", "b", "c", "d", "e", "f", "g", "h", "i", "j", "k", "l", "m", "n", "o", "p", "q", "r", "s", "t", "u", "v", "w", "x", "y", "z"}
UpperCase == {"A", "B", "C", "D", "E", "F", "G", "H", "I", "J", "K", "L", "M", "N", "O", "P", "Q", "R", "S", "T", "U", "V", "W", "X", "Y", "Z"}
Digits == {"0", "1", "2", "3", "4", "5", "6", "7", "8", "9"}

\* a character the class [^a-zA-Z0-9_\-\/] matches
Disallowed(ch) == ch \notin LowerCase \cup UpperCase \cup Digits \cup {"_", "-", "/"}

\* queueName.replace(/[^a-zA-Z0-9_\-\/]/g, ""): every match removed
replaceDisallowed(queueName) == SelectSeq(queueName, LAMBDA ch : ~ Disallowed(ch))

\* String.prototype.substring(0, end)
substring0(str, end) == SubSeq(str, 1, Min(end, Len(str)))

\* a sanitizer that cuts before it removes
sanitizeQueueName_CutFirst(queueName) == replaceDisallowed(substring0(queueName, 128))

sanitizeQueueName(queueName) == substring0(replaceDisallowed(queueName), 128)

RunChars == {"q", "Z", "7", "/", ".", " "}
RunLengths == {1, 64, 128}
Runs == {[i \in 1..n |-> ch] : ch \in RunChars, n \in RunLengths}

RECURSIVE NamesOf(_)
NamesOf(k) ==
    IF k = 0 THEN {<< >>}
    ELSE LET shorter == NamesOf(k - 1)
         IN  shorter \cup {name \o run : name \in shorter, run \in Runs}

QueueNames == NamesOf(MaxRuns)

\* a caller of sanitizeQueueName, before and after the call
InitSanitize ==
    /\ now = TickMs
    /\ messages = NoKeys
    /\ queues = [q \in ChildKeys |-> EmptyZ]
    /\ parents = [p \in ParentKeys |-> EmptyZ]
    /\ visibility = EmptyZ
    /\ current = [q \in ChildKeys |-> {}]
    /\ envCurrent = [e \in Envs |-> {}]
    /\ orgCurrent = [o \in Orgs |-> {}]
    /\ queueOf = [id \in Ids |-> queueKey("E1", "q1", "ck1")]
    /\ queueLimit = NoKeys /\ envLimit = NoKeys /\ orgLimit = NoKeys
    /\ worker = Idle
    /\ \E name \in QueueNames :
         calls = SetToBag({[pc |-> "call", queueName |-> name, result |-> << >>]})

sanitizeCall(c) ==
    /\ c.pc = "call"
    /\ calls' = SetToBag({[c EXCEPT !.pc = "returned",
                                    !.result = sanitizeQueueName(c.queueName)]})
    /\ UNCHANGED <<now, queueOf, store, limits, worker>>

NextSanitize == \E c \in Pending : sanitizeCall(c)

SpecSanitize == InitSanitize /\ [][NextSanitize]_vars

\* the subsequence of the allowed characters of a string, in order (by
\* halves: the allowed characters of the first half, then of the second)
RECURSIVE AllowedOf(_)
AllowedOf(str) ==
    IF Len(str) = 0 THEN << >>
    ELSE IF Len(str) = 1 THEN (IF Disallowed(str[1]) THEN << >> ELSE str)
    ELSE LET half == Len(str) \div 2
         IN  AllowedOf(SubSeq(str, 1, half))
                \o AllowedOf(SubSeq(str, half + 1, Len(str)))

\* C27: the result of sanitizeQueueName is the first 128 characters of the
\* subsequence of the input's alphanumerics, underscores, hyphens and
\* slashes: it holds only such characters, is at most 128 long, and
\* sanitizing it again returns it unchanged.
C27_SanitizeQueueName ==
    \A c \in Pending :
       c.pc = "returned"
          => /\ \A i \in 1..Len(c.result) : ~ Disallowed(c.result[i])
             /\ Len(c.result) <= 128
             /\ Len(c.result) = Min(128, Len(AllowedOf(c.queueName)))
             /\ c.result = SubSeq(AllowedOf(c.queueName), 1, Len(c.result))
             /\ sanitizeQueueName(c.result) = c.result

\* C27 witness: a name with a disallowed character among its first 128 and
\* more than 128 allowed ones has been sanitized to 128 characters.
C27_Witness ==
    \E c \in Pending :
       /\ c.pc = "returned"
       /\ Len(c.queueName) > 128
       /\ \E i \in 1..128 : Disallowed(c.queueName[i])
       /\ Len(c.result) = 128

\* C28: whenever the nack script of the requeueing worker moves an id from
\* the visibility-timeout queue back to its child queue, the id's deadline at
\* that moment is not later than the current time.
C28_RequeuerOnlyRequeuesExpired ==
    [][(/\ worker.pc = "nack"
        /\ InVisibility(Head(worker.batch))
        /\ requeueMessage)
          => visibility[Head(worker.batch)] <= now]_vars

\* C29: every id in a current-concurrency set of a queue, an environment or
\* an organization is in the visibility-timeout queue: no slot is held by a
\* message that is queued, deleted or dropped by the requeueing worker.
C29_SlotsOnlyForInFlight ==
    \A id \in Ids : InCurrent(id) => InVisibility(id)

(***************************************************************************)
(* The strategy instances.  The broker is constructed with two instances,  *)
(* options.queuePriorityStrategy and options.envQueuePriorityStrategy; the *)
(* constructor keeps the first as this.queuePriorityStrategy.  A dequeue   *)
(* leaves in calls the record of the instances its two strategy calls were *)
(* made on.                                                                *)
(***************************************************************************)
options_queuePriorityStrategy == "queuePriorityStrategy"
options_envQueuePriorityStrategy == "envQueuePriorityStrategy"
this_queuePriorityStrategy == options_queuePriorityStrategy

\* the strategy calls of #getRandomQueueFromParentQueue: the selection is
\* asked of the instance passed in, the choice of this.queuePriorityStrategy
StrategyCalls(parentQueue, queuePriorityStrategy) ==
    [parentQueue |-> parentQueue,
     nextCandidateSelection |-> queuePriorityStrategy,
     selectionId |-> <<queuePriorityStrategy, parentQueue>>,
     chooseQueue |-> this_queuePriorityStrategy]

strategyDequeueChoose(parentQueue, queuePriorityStrategy) ==
    /\ CanTrace
    /\ \/ /\ getRandomQueueFromParentQueue(parentQueue) = {}
          /\ calls' = Started({StrategyCalls(parentQueue, queuePriorityStrategy)})
       \/ \E messageQueue \in getRandomQueueFromParentQueue(parentQueue) :
            calls' = Started({StrategyCalls(parentQueue, queuePriorityStrategy),
                              Call("dequeue", "script", "-", messageQueue,
                                   parentQueue, 0, "-")})
    /\ UNCHANGED <<now, queueOf, store, limits, worker>>

strategyDequeueMessageInEnv(env) ==
    strategyDequeueChoose(envSharedQueueKey(env), options_envQueuePriorityStrategy)

strategyDequeueMessageInSharedQueue ==
    strategyDequeueChoose(SHARED_QUEUE, options_queuePriorityStrategy)

NextStrategy ==
    \/ Tick
    \/ \E id \in Ids, d \in EnqueueData : enqueueNew(id, d)
    \/ \E env \in Envs : strategyDequeueMessageInEnv(env)
    \/ strategyDequeueMessageInSharedQueue
    \/ \E c \in Running : dequeueScript(c)
    \/ \E c \in Running : dequeueRead(c)

SpecStrategy == Init /\ [][NextStrategy]_vars

StrategyRecords == {c \in Pending : "chooseQueue" \in DOMAIN c}

\* C30: a dequeue on an environment's parent queue makes both strategy calls
\* on the env-path instance, a dequeue on the shared parent queue makes both
\* on the shared-path instance, and the selectionId an instance returned is
\* passed to chooseQueue of that same instance.
C30_StrategyCallsOnOneInstance ==
    \A r \in StrategyRecords :
       /\ r.chooseQueue = r.nextCandidateSelection
       /\ r.selectionId[1] = r.chooseQueue
       /\ r.nextCandidateSelection
            = (IF r.parentQueue = SHARED_QUEUE THEN options_queuePriorityStrategy
               ELSE options_envQueuePriorityStrategy)

\* C31: a dequeue script that returns none (the org, env or queue set at its
\* limit, or no member of the child queue with score <= now) leaves the child
\* queues, the parent queues, the visibility-timeout queue, the concurrency
\* sets and the bodies unchanged, and the call ends there.
C31_DequeueNoneChangesNothing ==
    [][\A c \in Pending :
         (dequeueScript(c) /\ callDequeueResult(c.queue) = {})
            => /\ UNCHANGED store
               /\ calls' = Ended(c)]_vars

\* C31 witness: a dequeue script is about to run on a child queue that holds
\* a due message and has a set at its limit.
C31_Witness ==
    \E c \in Pending :
       /\ c.op = "dequeue" /\ c.pc = "script"
       /\ callDequeueResult(c.queue) = {}
       /\ ZFirstByScore(queues[c.queue], now) # {}

\* C32: when a dequeue call returns none after its script has run (the body
\* read gave nothing), the id its script took is not in flight: it is not in
\* the visibility-timeout queue and holds no concurrency slot.
C32_DequeueNoneLeavesNothingInFlight ==
    [][\A c \in Pending :
         (dequeueRead(c) /\ readMessage(c.messageId) = {} /\ ~ readThrows(c.messageId))
            => NotInFlight(c.messageId)]_vars

\* C33: when the strategy chooses no queue (the parent queue is empty or no
\* candidate has available capacity), the dequeue returns without running
\* the dequeue script and the store is unchanged.
C33_NoChoiceNoScript ==
    [][\A parentQueue \in ParentKeys :
         (/\ getRandomQueueFromParentQueue(parentQueue) = {}
          /\ dequeueChoose(parentQueue))
            => UNCHANGED <<store, calls>>]_vars

\* C33 witness: the parent queue of E1 holds a child queue, no child queue of
\* it has available capacity, and a dequeue can be called.
C33_Witness ==
    /\ DOMAIN parents[envSharedQueueKey("E1")] # {}
    /\ getRandomQueueFromParentQueue(envSharedQueueKey("E1")) = {}
    /\ CanCall

\* C34: a nack script (of a nack call or of the requeueing worker) for an id
\* that is not in the visibility-timeout queue changes nothing in the store:
\* the score of a queued message and the score of its child queue in the
\* parent queue stay as they were.
C34_NackNotInFlightNoOp ==
    /\ [][\A c \in Pending :
            (nackScript(c) /\ ~ InVisibility(c.messageId)) => UNCHANGED store]_vars
    /\ [][(/\ worker.pc = "nack"
           /\ ~ InVisibility(Head(worker.batch))
           /\ requeueMessage)
             => UNCHANGED store]_vars

\* C34 witness: a nack script is about to run for a message that is queued
\* at a score other than the script's.
C34_Witness ==
    \E c \in Pending :
       /\ c.op = "nack" /\ c.pc = "script"
       /\ Queued(c.messageId)
       /\ queues[queueOf[c.messageId]][c.messageId] # c.score

(***************************************************************************)
(* The requeueing worker on missing and garbled bodies.                    *)
(***************************************************************************)
NextRequeueGarbled ==
    \/ Tick
    \/ \E id \in Ids, d \in EnqueueData : enqueueNew(id, d)
    \/ \E id \in Ids, raw \in {Unparseable, NotAPayload} : garble(id, raw)
    \/ \E env \in Envs : dequeueMessageInEnv(env)
    \/ \E c \in Pending : dequeueScript(c)
    \/ \E c \in Pending : dequeueRead(c)
    \/ \E id \in Ids : acknowledgeMessage(id)
    \/ \E c \in Pending : acknowledgeScript(c)
    \/ Requeue

SpecRequeueGarbled == Init /\ [][NextRequeueGarbled]_vars

\* the half that holds: an expired id whose body is missing or is JSON that
\* is not a payload is removed from the visibility-timeout queue and the
\* worker goes on with the rest of its batch
C35_WorkerDropsMissingOrInvalid ==
    /\ [][(/\ worker.pc = "get"
           /\ ~ Readable(Head(worker.batch)) /\ ~ readThrows(Head(worker.batch))
           /\ requeueGet)
             => worker' = [worker EXCEPT !.pc = "zrem"]]_vars
    /\ [][(worker.pc = "zrem" /\ requeueMessage)
             => /\ Head(worker.batch) \notin DOMAIN visibility'
                /\ worker' = WorkerNext(worker.batch)]_vars

\* C35: when the requeueing worker finds an expired id whose body is missing
\* or garbled (not parseable, or not a payload), it goes on to remove the id
\* from the visibility-timeout queue, and after the removal it goes on with
\* the rest of its batch.
C35_WorkerDropsUnreadable ==
    /\ [][(/\ worker.pc = "get"
           /\ ~ Readable(Head(worker.batch))
           /\ requeueGet)
             => worker' = [worker EXCEPT !.pc = "zrem"]]_vars
    /\ [][(worker.pc = "zrem" /\ requeueMessage)
             => /\ Head(worker.batch) \notin DOMAIN visibility'
                /\ worker' = WorkerNext(worker.batch)]_vars

(***************************************************************************)
(* The candidate window.  The broker reads only the members of the parent  *)
(* queue at the indexes nextCandidateSelection returns, [0, K-1] for the   *)
(* default strategy, and chooses among those.  K is scaled down to the two *)
(* child queues an environment has here; three messages, a and b in one    *)
(* child queue and c in another, with a queue limit of ExplicitLimit.      *)
(***************************************************************************)
queueSelectionCount == 1

StarveIds == Ids \cup {"c"}

\* ZRANGE parentQueue 0 K-1: the first K child queues by score, then by key
candidateWindow(parentQueue) ==
    LET z == parents[parentQueue]
        KeyLex(q) == (IF q.env = "E1" THEN 0 ELSE 2) + (IF q.ck = "ck1" THEN 0 ELSE 1)
        Earlier(q, r) == z[q] < z[r] \/ (z[q] = z[r] /\ KeyLex(q) < KeyLex(r))
    IN  { q \in DOMAIN z :
            Cardinality({ r \in DOMAIN z \ {q} : Earlier(r, q) }) < queueSelectionCount }

\* chooseQueue on the window: the candidates with available capacity
windowChoices(parentQueue) ==
    { queue \in candidateWindow(parentQueue) : Available(queue) > 0 }

\* a dequeue whose strategy chooses messageQueue
windowDequeueChoose(parentQueue, messageQueue) ==
    /\ CanCall
    /\ messageQueue \in windowChoices(parentQueue)
    /\ calls' = Started({Call("dequeue", "script", "-", messageQueue,
                              parentQueue, 0, "-")})
    /\ UNCHANGED <<now, queueOf, store, limits, worker>>

windowDequeueMessageInEnv(env) ==
    \/ /\ CanCall
       /\ windowChoices(envSharedQueueKey(env)) = {}
       /\ UNCHANGED vars
    \/ \E messageQueue \in ChildKeys :
         windowDequeueChoose(envSharedQueueKey(env), messageQueue)

InitStarve ==
    /\ now = TickMs
    /\ messages = NoKeys
    /\ queues = [q \in ChildKeys |-> EmptyZ]
    /\ parents = [p \in ParentKeys |-> EmptyZ]
    /\ visibility = EmptyZ
    /\ current = [q \in ChildKeys |-> {}]
    /\ envCurrent = [e \in Envs |-> {}]
    /\ orgCurrent = [o \in Orgs |-> {}]
    /\ queueOf = [id \in StarveIds |-> IF id = "c" THEN queueKey("E1", "q1", "ck2")
                                       ELSE queueKey("E1", "q1", "ck1")]
    /\ queueLimit = [k \in LimitKeys |-> ExplicitLimit]
    /\ envLimit = NoKeys /\ orgLimit = NoKeys
    /\ calls = EmptyBag
    /\ worker = Idle

NextStarve ==
    \/ Tick
    \/ \E id \in StarveIds, d \in EnqueueData : enqueueNew(id, d)
    \/ \E env \in Envs : windowDequeueMessageInEnv(env)
    \/ \E c \in Pending : dequeueScript(c)
    \/ \E c \in Pending : dequeueRead(c)
    \/ \E id \in StarveIds : ackInFlight(id)
    \/ \E c \in Pending : acknowledgeScript(c)

\* dequeue calls are repeated, the choice among the eligible candidates is
\* fair, and every call that was started completes
SpecStarve ==
    /\ InitStarve /\ [][NextStarve]_vars
    /\ \A q \in ChildKeys : SF_vars(windowDequeueChoose(envSharedQueueKey(q.env), q))
    /\ WF_vars(\E c \in Pending : dequeueScript(c))
    /\ WF_vars(\E c \in Pending : dequeueRead(c))
    /\ WF_vars(\E c \in Pending : acknowledgeScript(c))

\* C36: a message that is due in a child queue whose queue, environment and
\* organization have available capacity is eventually dequeued (here c,
\* alone in its child queue, while a and b share another child queue of the
\* same parent queue).
C36_DueMessageEventuallyDequeued ==
    (/\ Queued("c")
     /\ ZFirstByScore(queues[queueOf["c"]], now) = {"c"}
     /\ Available(queueOf["c"]) > 0)
       ~> InVisibility("c")

(***************************************************************************)
(* Limit updates with two concurrency-keyed child queues of one queue.     *)
(***************************************************************************)
NextSharedLimit ==
    \/ \E k \in LimitKeys, n \in UpdateLimits :
         updateQueueConcurrencyLimits(k[1], k[2], n)
    \/ \E id \in StarveIds, d \in EnqueueData : enqueueNew(id, d)
    \/ \E env \in Envs : dequeueMessageInEnv(env)
    \/ \E c \in Pending : dequeueScript(c)
    \/ \E c \in Pending : dequeueRead(c)
    \/ \E id \in StarveIds : ackInFlight(id)
    \/ \E c \in Pending : acknowledgeScript(c)

SpecSharedLimit == InitStarve /\ [][NextSharedLimit]_vars

\* C37: a limit n set with updateQueueConcurrencyLimits(env, queue, n) is the
\* limit of every child queue (env, queue, ck); the dequeue script of a child
\* queue compares that limit with the child queue's own current set (none at
\* or above it, the oldest due message below it), and adds the id it takes
\* to that set only.
C37_SubqueuesShareLimitKey ==
    /\ [][\A k \in LimitKeys, n \in UpdateLimits :
            updateQueueConcurrencyLimits(k[1], k[2], n)
               => \A q \in ChildKeys :
                    (q.env = k[1] /\ q.queue = k[2]) => QueueLimitOf(q)' = n]_vars
    /\ [][\A c \in Pending :
            dequeueScript(c)
               => /\ Cardinality(current[c.queue]) >= QueueLimitOf(c.queue)
                       => UNCHANGED store
                  /\ (/\ Cardinality(current[c.queue]) < QueueLimitOf(c.queue)
                      /\ EnvOrgBelowLimit(c.queue))
                       => \A m \in ZFirstByScore(queues[c.queue], now) :
                            m \in current'[c.queue]
                  /\ \A q \in ChildKeys \ {c.queue} : current'[q] = current[q]]_vars

\* C37 witness: with a limit of 1 one message of child queue ck1 is in flight
\* and the other waits, while c is in flight in child queue ck2 of the same
\* queue, and a dequeue script on ck1 is about to run.
C37_Witness ==
    /\ QueueLimitOf(queueOf["a"]) = 1
    /\ Cardinality(current[queueOf["a"]]) = 1
    /\ queues[queueOf["a"]] # EmptyZ
    /\ "c" \in current[queueOf["c"]]
    /\ queueOf["a"].queue = queueOf["c"].queue /\ queueOf["a"] # queueOf["c"]
    /\ \E c \in Pending : c.op = "dequeue" /\ c.pc = "script" /\ c.queue = queueOf["a"]

\* C38: a heartbeat of an in-flight id leaves its deadline where it was or
\* later, and changes nothing else: the other deadlines, the members of the
\* visibility-timeout queue, the child and parent queues, the concurrency
\* sets and the bodies stay as they were.
C38_HeartbeatNeverShortens ==
    [][\A id \in Ids, s \in HeartbeatSeconds :
         (heartbeatMessage(id, s) /\ InVisibility(id))
            => /\ DOMAIN visibility' = DOMAIN visibility
               /\ visibility'[id] >= visibility[id]
               /\ \A other \in DOMAIN visibility \ {id} :
                    visibility'[other] = visibility[other]
               /\ UNCHANGED <<messages, queues, parents, current, envCurrent,
                              orgCurrent>>]_vars

\* C38 witness: heartbeats have moved the deadline of a past the one its
\* dequeue set; a is still in flight with its body and its three slots, and
\* the clock has not reached the deadline.
C38_Witness ==
    /\ InFlight("a")
    /\ visibility["a"] > OriginalLease
    /\ now > LeaseStart /\ now < visibility["a"]

(***************************************************************************)
(* Environments.  enqueueMessage takes the environment, the queue name,    *)
(* the message id and the concurrency key from its caller; the message     *)
(* key is built from the id alone, the child queue and parent queue keys   *)
(* from the environment.                                                   *)
(***************************************************************************)
enqueueMessageInEnv(env, queue, messageId, messageData, concurrencyKey) ==
    LET messageQueue == queueKey(env, queue, concurrencyKey)
        timestamp == now
        parentQueue == envSharedQueueKey(env)
    IN  /\ callEnqueueMessage(MessagePayload(messageData, messageQueue,
                                             concurrencyKey, timestamp,
                                             messageId, parentQueue))
        /\ UNCHANGED <<now, queueOf, limits, calls, worker>>

\* callers of every environment enqueue under ids of their choosing, at one
\* time
NextEnvs ==
    \/ \E q \in ChildKeys, id \in Ids, d \in EnqueueData :
         enqueueMessageInEnv(q.env, q.queue, id, d, q.ck)
    \/ \E env \in Envs : dequeueMessageInEnv(env)
    \/ \E c \in Pending : dequeueScript(c)
    \/ \E c \in Pending : dequeueRead(c)

SpecEnvs == Init /\ [][NextEnvs]_vars

\* C39: the message the script of dequeueMessageInEnv(env) puts in flight,
\* and the call then reads and returns, is one that was enqueued under env:
\* the payload stored under its id names a child queue of env.
C39_EnvPathTakesOwnMessages ==
    [][\A c \in Pending, env \in Envs :
         (dequeueScript(c) /\ c.parentQueue = envSharedQueueKey(env))
            => \A m \in callDequeueResult(c.queue) :
                 \A message \in readMessage(m) : message.queue.env = env]_vars

============================================================================
